---- MODULE Spec2Model ----
(***************************************************************************)
(* Index layer of the accounts store: the packed index entry, the          *)
(* occupancy tracker and the power-of-two addressing of data buckets       *)
(* (bucket_map/src/index_entry.rs).                                        *)
(*                                                                         *)
(* A u64 is the tuple of its 8 bytes, least significant first (the order   *)
(* of the record on disk): the values the code handles (2^56,              *)
(* u32::MAX + 2) keep their full width.  A u8 is a number in 0..255.       *)
(***************************************************************************)
EXTENDS Integers, Sequences, FiniteSets, TLC

\* ------------------------------------------------------------ bounds

\* Data buckets (size classes) 0 .. NumDataBuckets - 1.
NumDataBuckets == 2
\* The data buckets of the allocator double this many times in all.
MaxCapacityPow2 == 2
\* The data bucket that data_loc is taken against grows up to this exponent.
MaxLocCapacityPow2 == 3
\* The size class is computed for every slot count up to this one.
MaxSmallSlots == 512
\* The AccountsIndexStorage objects that are constructed and dropped.
NumInstances == 2
\* new is called with 0 .. MaxBins bins.
MaxBins == 3
\* The shutdown sequence of an object is run up to this many times.
MaxShutdowns == 2

\* The largest pool of background threads of an object.
MaxThreads == 2
\* The calls of the stats hook after the exit flag was set are counted up to this.
MaxLateReports == 2

\* ------------------------------------------------------------ widths

\* The index bucket of the tests has capacity_pow2 = 1, i.e. two cells.
IndexCapacityPow2 == 1
\* Slot::BITS, the width of a u64.
U64Bits == 64
\* capacity_when_created_pow2: B8
CapBits == 8
\* offset: B56
OffsetBits == 56
\* u8::MAX + 1: the values of a byte
U8Mod == 256

\* ------------------------------------------------------------ u64

Pow2Nat(k) == 2 ^ k

\* The u64 whose byte i (0 the least significant) is F(i).
Word(F(_)) == <<F(0), F(1), F(2), F(3), F(4), F(5), F(6), F(7)>>

\* Byte i of the u64 x, and bit i of it.
Byte(x, i) == x[i + 1]

Bit(x, i) == (Byte(x, i \div CapBits) \div Pow2Nat(i % CapBits)) % 2

\* The u64 of a small number (n < 2^31).
U64(n) == Word(LAMBDA i : IF i < 4 THEN (n \div Pow2Nat(CapBits * i)) % U8Mod ELSE 0)

\* 2^k as a u64 (k < 64).
U64Pow2(k) ==
    Word(LAMBDA i : IF i = k \div CapBits THEN Pow2Nat(k % CapBits) ELSE 0)

\* 2^k - 1 as a u64 (k <= 64).
U64LowOnes(k) ==
    Word(LAMBDA i : IF i < k \div CapBits THEN U8Mod - 1
                    ELSE IF i = k \div CapBits THEN Pow2Nat(k % CapBits) - 1
                    ELSE 0)

U64Zero == U64LowOnes(0)

\* u32::MAX as u64
U32Max == U64LowOnes(32)

\* Whether the u64 x is below the small number n (n <= 2^31).
U64Below(x, n) ==
    /\ \A i \in 4 .. 7 : Byte(x, i) = 0
    /\ Byte(x, 3) < 128
    /\ Byte(x, 0) + U8Mod * (Byte(x, 1) + U8Mod * (Byte(x, 2) + U8Mod * Byte(x, 3))) < n

\* The small number held by a u64 below 2^31.
U64ToNat(x) ==
    Byte(x, 0) + U8Mod * (Byte(x, 1) + U8Mod * (Byte(x, 2) + U8Mod * Byte(x, 3)))

\* The number of bits of a byte: 0 for 0, 8 for 128..255.
ByteWidth(v) == IF v = 0 THEN 0 ELSE CHOOSE w \in 1 .. CapBits : Pow2Nat(w - 1) <= v /\ v < Pow2Nat(w)

RECURSIVE HighestByteFrom(_, _)
\* The highest non-zero byte of x at or below byte i, or -1 when there is none.
HighestByteFrom(x, i) ==
    IF i < 0 THEN -1 ELSE IF Byte(x, i) /= 0 THEN i ELSE HighestByteFrom(x, i - 1)

\* u64::leading_zeros
leading_zeros(x) ==
    LET h == HighestByteFrom(x, 7)
    IN  IF h < 0 THEN U64Bits ELSE U64Bits - (CapBits * h + ByteWidth(Byte(x, h)))

RECURSIVE LowestByteNot(_, _, _)
\* The lowest byte of x at or above byte i that is not v, or 8 when there is none.
LowestByteNot(x, v, i) ==
    IF i > 7 THEN 8 ELSE IF Byte(x, i) /= v THEN i ELSE LowestByteNot(x, v, i + 1)

\* x - 1 for x /= 0: the borrow runs through the zero bytes at the bottom.
U64Dec(x) ==
    LET l == LowestByteNot(x, 0, 0)
    IN  Word(LAMBDA i : IF i < l THEN U8Mod - 1 ELSE IF i = l THEN Byte(x, i) - 1 ELSE Byte(x, i))

\* x + 1, wrapping: the carry runs through the 0xff bytes at the bottom.
U64Inc(x) ==
    LET l == LowestByteNot(x, U8Mod - 1, 0)
    IN  Word(LAMBDA i : IF i < l THEN 0 ELSE IF i = l THEN Byte(x, i) + 1 ELSE Byte(x, i))

RECURSIVE U64GtFrom(_, _, _)
\* x > y on the bytes at or below byte i.
U64GtFrom(x, y, i) ==
    IF i < 0 THEN FALSE
    ELSE IF Byte(x, i) /= Byte(y, i) THEN Byte(x, i) > Byte(y, i)
    ELSE U64GtFrom(x, y, i - 1)

\* x > y on u64.
U64Gt(x, y) == U64GtFrom(x, y, 7)

\* x << s on u64 for 0 <= s < 64: the bits shifted out at the top are lost.
U64Shl(x, s) ==
    LET q == s \div CapBits
        r == s % CapBits
    IN  Word(LAMBDA i :
                IF i < q THEN 0
                ELSE ((Byte(x, i - q) * Pow2Nat(r)) % U8Mod)
                         + (IF i - q >= 1 THEN Byte(x, i - q - 1) \div Pow2Nat(CapBits - r) ELSE 0))

\* ------------------------------------------------------------ PackedStorage

\* #[bitfield(bits = 64)] struct PackedStorage { capacity_when_created_pow2: B8, offset: B56 }
\* The struct is 8 bytes, the first field in the low bits: byte 0 is the
\* exponent, bytes 1..7 are the offset.
PackedStorageDefault == U64Zero

\* The exponent read from the top byte, as if the fields were declared offset first.
capacity_when_created_pow2_from_top(word) == Byte(word, 7)

\* PackedStorage::capacity_when_created_pow2()
capacity_when_created_pow2(word) == Byte(word, 0)

\* PackedStorage::offset()
offset(word) == Word(LAMBDA i : IF i < 7 THEN Byte(word, i + 1) ELSE 0)

\* PackedStorage::set_capacity_when_created_pow2(u8)
set_capacity_when_created_pow2(word, pow2) ==
    Word(LAMBDA i : IF i = 0 THEN pow2 ELSE Byte(word, i))

\* The largest value of a B56 field.
OffsetMax == U64LowOnes(OffsetBits)

\* A bound check that is off by one: 2^56 passes.
set_offset_checked_ok_off_by_one(value) == ~U64Gt(value, U64Pow2(OffsetBits))

\* PackedStorage::set_offset_checked(u64): Err(OutOfBounds) above the field's maximum.
set_offset_checked_ok(value) == ~U64Gt(value, OffsetMax)

\* A setter that writes the whole word: the exponent is cleared.
set_offset_whole_word(word, value) ==
    Word(LAMBDA i : IF i = 0 THEN 0 ELSE Byte(value, i - 1))

\* PackedStorage::set_offset(u64): the low 56 bits of the value go to bytes 1..7.
set_offset(word, value) ==
    Word(LAMBDA i : IF i = 0 THEN Byte(word, 0) ELSE Byte(value, i - 1))

\* ------------------------------------------------------------ occupancy tracker

\* BucketWithBitVec::new(num_elements): BitVec::new_fill(false, num_elements)
BucketWithBitVecNew(num_elements) == [i \in 0 .. (num_elements - 1) |-> FALSE]

\* BucketWithBitVec::is_free(_element, ix): !self.occupied.get(ix)
is_free(occupied, ix) == ~occupied[ix]

\* BucketWithBitVec::offset_to_first_data()
offset_to_first_data == 0

\* An occupy that sets every bit of the vector.
occupy_all(occupied, ix) ==
    IF is_free(occupied, ix)
    THEN [ok |-> TRUE, occupied |-> [j \in DOMAIN occupied |-> TRUE]]
    ELSE [ok |-> FALSE, occupied |-> occupied]

\* occupy and free without their assertion.
occupy_unchecked(occupied, ix) ==
    [ok |-> TRUE, occupied |-> [occupied EXCEPT ![ix] = TRUE]]

free_unchecked(occupied, ix) ==
    [ok |-> TRUE, occupied |-> [occupied EXCEPT ![ix] = FALSE]]

\* BucketWithBitVec::occupy(element, ix): the assertion, then the bit is set.
\* ok = FALSE is the assertion failure (a panic), before anything is written.
occupy(occupied, ix) ==
    IF is_free(occupied, ix)
    THEN [ok |-> TRUE, occupied |-> [occupied EXCEPT ![ix] = TRUE]]
    ELSE [ok |-> FALSE, occupied |-> occupied]

\* BucketWithBitVec::free(element, ix)
free(occupied, ix) ==
    IF ~is_free(occupied, ix)
    THEN [ok |-> TRUE, occupied |-> [occupied EXCEPT ![ix] = FALSE]]
    ELSE [ok |-> FALSE, occupied |-> occupied]

\* ------------------------------------------------------------ bucket storage

\* BucketStorage<O>: capacity_pow2, the occupancy tracker (contents) and the
\* cells of the memory map, cell ix at cells[ix]; a new map is zero-filled.
BucketStorageNew(capacity_pow2, zero_cell) ==
    [capacity_pow2 |-> capacity_pow2,
     occupied |-> BucketWithBitVecNew(Pow2Nat(capacity_pow2)),
     cells |-> [i \in 0 .. (Pow2Nat(capacity_pow2) - 1) |-> zero_cell]]

\* BucketStorage::capacity(): 1 << capacity_pow2
capacity(storage) == Pow2Nat(storage.capacity_pow2)

\* BucketStorage::get::<T>(ix) / get_mut::<T>(ix)
get(storage, ix) == storage.cells[ix]

put(storage, ix, value) == [storage EXCEPT !.cells[ix] = value]

\* ------------------------------------------------------------ index entry

\* Pubkey: the all-zero key of a fresh map, and the keys callers insert.
ZeroKey == "key0"
Keys == {"key1", "key2"}

\* The bytes of a cell of a zero-filled index bucket, read as an IndexEntry.
ZeroEntry ==
    [key |-> ZeroKey, ref_count |-> U64Zero,
     storage_cap_and_offset |-> U64Zero, num_slots |-> U64Zero]

\* The largest k with 2^k <= num_slots: a list that is longer than its cell.
data_bucket_from_num_slots_floor(num_slots) ==
    IF num_slots = U64Zero
    THEN 0
    ELSE U64Bits - 1 - leading_zeros(num_slots)

\* The bit width of num_slots itself, not of num_slots - 1: floor(log2) + 1.
data_bucket_from_num_slots_no_decrement(num_slots) ==
    IF num_slots = U64Zero
    THEN 0
    ELSE U64Bits - leading_zeros(num_slots)

\* IndexEntry::data_bucket_from_num_slots(num_slots)
data_bucket_from_num_slots(num_slots) ==
    IF num_slots = U64Zero
    THEN 0
    ELSE U64Bits - leading_zeros(U64Dec(num_slots))

\* init that clears the counts and leaves the packed storage word.
init_keeping_storage(index_bucket, ix, pubkey) ==
    put(index_bucket, ix,
        [key |-> pubkey, ref_count |-> U64Zero,
         storage_cap_and_offset |-> get(index_bucket, ix).storage_cap_and_offset,
         num_slots |-> U64Zero])

\* An init that clears every cell of the index bucket.
init_every_cell(index_bucket, ix, pubkey) ==
    [index_bucket EXCEPT !.cells =
        [j \in DOMAIN index_bucket.cells |->
            [key |-> IF j = ix THEN pubkey ELSE ZeroKey, ref_count |-> U64Zero,
             storage_cap_and_offset |-> PackedStorageDefault, num_slots |-> U64Zero]]]

\* IndexEntryPlaceInBucket::init(index_bucket, pubkey)
init(index_bucket, ix, pubkey) ==
    put(index_bucket, ix,
        [key |-> pubkey, ref_count |-> U64Zero,
         storage_cap_and_offset |-> PackedStorageDefault, num_slots |-> U64Zero])

\* IndexEntryPlaceInBucket::set_storage_capacity_when_created_pow2
set_storage_capacity_when_created_pow2(index_bucket, ix, pow2) ==
    LET e == get(index_bucket, ix)
    IN  put(index_bucket, ix,
            [e EXCEPT !.storage_cap_and_offset =
                          set_capacity_when_created_pow2(@, pow2)])

\* IndexEntryPlaceInBucket::set_storage_offset: set_offset_checked(..).expect(..)
\* ok = FALSE is the panic of expect, raised before the field is written.
ExpectMessage == "New storage offset must fit into 7 bytes!"
NoMessage == ""

\* A set_storage_offset that writes the low 56 bits before it fails.
set_storage_offset_truncating(index_bucket, ix, storage_offset_) ==
    LET e == get(index_bucket, ix)
        written == put(index_bucket, ix,
                       [e EXCEPT !.storage_cap_and_offset = set_offset(@, storage_offset_)])
    IN  IF set_offset_checked_ok(storage_offset_)
        THEN [ok |-> TRUE, msg |-> NoMessage, index_bucket |-> written]
        ELSE [ok |-> FALSE, msg |-> ExpectMessage, index_bucket |-> written]

set_storage_offset(index_bucket, ix, storage_offset_) ==
    LET e == get(index_bucket, ix)
    IN  IF set_offset_checked_ok(storage_offset_)
        THEN [ok |-> TRUE, msg |-> NoMessage,
              index_bucket |->
                  put(index_bucket, ix,
                      [e EXCEPT !.storage_cap_and_offset = set_offset(@, storage_offset_)])]
        ELSE [ok |-> FALSE, msg |-> ExpectMessage, index_bucket |-> index_bucket]

\* IndexEntryPlaceInBucket::num_slots
num_slots(index_bucket, ix) == get(index_bucket, ix).num_slots

\* IndexEntryPlaceInBucket::data_bucket_ix
data_bucket_ix(index_bucket, ix) ==
    data_bucket_from_num_slots(num_slots(index_bucket, ix))

\* IndexEntryPlaceInBucket::ref_count
ref_count(index_bucket, ix) == get(index_bucket, ix).ref_count

\* IndexEntryPlaceInBucket::storage_capacity_when_created_pow2
storage_capacity_when_created_pow2(index_bucket, ix) ==
    capacity_when_created_pow2(get(index_bucket, ix).storage_cap_and_offset)

\* IndexEntryPlaceInBucket::storage_offset
storage_offset(index_bucket, ix) ==
    offset(get(index_bucket, ix).storage_cap_and_offset)

\* IndexEntryPlaceInBucket::key
key(index_bucket, ix) == get(index_bucket, ix).key

\* A set_ref_count that clears the slot count as well.
set_ref_count_clearing_slots(index_bucket, ix, rc) ==
    put(index_bucket, ix,
        [get(index_bucket, ix) EXCEPT !.ref_count = rc, !.num_slots = U64Zero])

\* IndexEntryPlaceInBucket::set_ref_count
set_ref_count(index_bucket, ix, rc) ==
    put(index_bucket, ix, [get(index_bucket, ix) EXCEPT !.ref_count = rc])

\* IndexEntryPlaceInBucket::set_num_slots
set_num_slots(index_bucket, ix, n) ==
    put(index_bucket, ix, [get(index_bucket, ix) EXCEPT !.num_slots = n])

\* ------------------------------------------------------------ data buckets

\* The cell of data bucket b: 2^b elements of the slot list type, zero-filled.
\* An element is written here as <<key, j>>: the j-th record of key's slot list.
ZeroElement == <<ZeroKey, 0>>
ZeroCell(b) == [j \in 1 .. Pow2Nat(b) |-> ZeroElement]

\* Elements per cell of a data bucket.
CellSize(storage) == Len(storage.cells[0])

\* BucketStorage::is_free(ix): the tracker's bit of cell ix; a cell beyond the
\* capacity is an out-of-bounds access (ok = FALSE, a panic).
storage_is_free(storage, loc) ==
    IF U64Below(loc, capacity(storage))
    THEN [ok |-> TRUE, free |-> is_free(storage.occupied, U64ToNat(loc))]
    ELSE [ok |-> FALSE, free |-> FALSE]

\* BucketStorage::get_cell_slice::<T>(ix, len): len elements of the memory map
\* from the start of cell ix on; a run past the end of the map is a panic.
get_cell_slice(storage, loc, len) ==
    LET cs == CellSize(storage)
        start == U64ToNat(loc) * cs
    IN  IF U64Below(loc, capacity(storage)) /\ start + len <= capacity(storage) * cs
        THEN [ok |-> TRUE,
              slice |-> [j \in 1 .. len |->
                            storage.cells[(start + j - 1) \div cs][((start + j - 1) % cs) + 1]]]
        ELSE [ok |-> FALSE, slice |-> <<>>]

\* BucketStorage::grow: the capacity doubles, cell i moves to cell 2 * i, the
\* cells in between are new (zero-filled and free).
grow(storage) ==
    LET zero == [j \in 1 .. CellSize(storage) |-> ZeroElement]
        cap2 == 2 * capacity(storage)
    IN  [capacity_pow2 |-> storage.capacity_pow2 + 1,
         occupied |-> [i \in 0 .. (cap2 - 1) |->
                          IF i % 2 = 0 THEN storage.occupied[i \div 2] ELSE FALSE],
         cells |-> [i \in 0 .. (cap2 - 1) |->
                       IF i % 2 = 0 THEN storage.cells[i \div 2] ELSE zero]]

\* A remap that shifts by the current exponent, ignoring the recorded one.
data_loc_ignoring_created(index_bucket, ix, storage, overflow_checks) ==
    [ok |-> TRUE,
     loc |-> U64Shl(storage_offset(index_bucket, ix), storage.capacity_pow2 % U64Bits)]

\* IndexEntryPlaceInBucket::data_loc(index_bucket, storage).  The exponents are
\* u8 and the offset u64: with overflow checks (a debug build) a negative
\* difference or a shift of 64 or more panics (ok = FALSE); without them the
\* difference wraps modulo 2^8 and the shift amount modulo 64.
data_loc(index_bucket, ix, storage, overflow_checks) ==
    LET c0 == capacity_when_created_pow2(get(index_bucket, ix).storage_cap_and_offset)
        c1 == storage.capacity_pow2
        diff == (c1 + U8Mod - c0) % U8Mod
    IN  IF overflow_checks /\ (c1 < c0 \/ diff >= U64Bits)
        THEN [ok |-> FALSE, loc |-> U64Zero]
        ELSE [ok |-> TRUE,
              loc |-> U64Shl(storage_offset(index_bucket, ix), diff % U64Bits)]

\* IndexEntryPlaceInBucket::read_value(index_bucket, data_buckets).
\* data_buckets is the slice handed in (a function on 0 .. len-1); reads is the
\* set of its buckets the call dereferenced.  ok = FALSE is a panic: the slice
\* index out of bounds, data_loc, the assertion, or get_cell_slice.
ReadPanic(reads) == [ok |-> FALSE, slice |-> <<>>, ref_count |-> U64Zero, reads |-> reads]

\* read_value that dereferences a data bucket whatever num_slots is.
read_value_always_dereferencing(index_bucket, ix, data_buckets, overflow_checks) ==
    LET n == num_slots(index_bucket, ix)
        b == data_bucket_ix(index_bucket, ix)
    IN  IF b \notin DOMAIN data_buckets
        THEN ReadPanic({})
        ELSE LET data_bucket == data_buckets[b]
                 loc == data_loc(index_bucket, ix, data_bucket, overflow_checks)
                 isfree == storage_is_free(data_bucket, loc.loc)
                 cells == get_cell_slice(data_bucket, loc.loc, U64ToNat(n))
             IN  IF ~loc.ok THEN ReadPanic({})
                 ELSE IF ~isfree.ok \/ isfree.free THEN ReadPanic({b})
                 ELSE IF ~cells.ok THEN ReadPanic({b})
                 ELSE [ok |-> TRUE, slice |-> cells.slice,
                       ref_count |-> ref_count(index_bucket, ix),
                       reads |-> {b}]

\* read_value that reads at the recorded offset, without the remap of data_loc.
read_value_without_remap(index_bucket, ix, data_buckets, overflow_checks) ==
    LET n == num_slots(index_bucket, ix)
    IN  IF n /= U64Zero
        THEN LET b == data_bucket_ix(index_bucket, ix)
             IN  IF b \notin DOMAIN data_buckets
                 THEN ReadPanic({})
                 ELSE LET data_bucket == data_buckets[b]
                          loc == storage_offset(index_bucket, ix)
                          isfree == storage_is_free(data_bucket, loc)
                          cells == get_cell_slice(data_bucket, loc, U64ToNat(n))
                      IN  IF ~isfree.ok \/ isfree.free THEN ReadPanic({b})
                          ELSE IF ~cells.ok THEN ReadPanic({b})
                          ELSE [ok |-> TRUE, slice |-> cells.slice,
                                ref_count |-> ref_count(index_bucket, ix),
                                reads |-> {b}]
        ELSE [ok |-> TRUE, slice |-> <<>>,
              ref_count |-> ref_count(index_bucket, ix), reads |-> {}]

\* read_value without the assertion that the cell is occupied.
read_value_unasserted(index_bucket, ix, data_buckets, overflow_checks) ==
    LET n == num_slots(index_bucket, ix)
    IN  IF n /= U64Zero
        THEN LET b == data_bucket_ix(index_bucket, ix)
             IN  IF b \notin DOMAIN data_buckets
                 THEN ReadPanic({})
                 ELSE LET data_bucket == data_buckets[b]
                          loc == data_loc(index_bucket, ix, data_bucket, overflow_checks)
                          cells == get_cell_slice(data_bucket, loc.loc, U64ToNat(n))
                      IN  IF ~loc.ok THEN ReadPanic({})
                          ELSE IF ~cells.ok THEN ReadPanic({b})
                          ELSE [ok |-> TRUE, slice |-> cells.slice,
                                ref_count |-> ref_count(index_bucket, ix),
                                reads |-> {b}]
        ELSE [ok |-> TRUE, slice |-> <<>>,
              ref_count |-> ref_count(index_bucket, ix), reads |-> {}]

read_value(index_bucket, ix, data_buckets, overflow_checks) ==
    LET n == num_slots(index_bucket, ix)
    IN  IF n /= U64Zero
        THEN LET b == data_bucket_ix(index_bucket, ix)
             IN  IF b \notin DOMAIN data_buckets
                 THEN ReadPanic({})
                 ELSE LET data_bucket == data_buckets[b]
                          loc == data_loc(index_bucket, ix, data_bucket, overflow_checks)
                          isfree == storage_is_free(data_bucket, loc.loc)
                          cells == get_cell_slice(data_bucket, loc.loc, U64ToNat(n))
                      IN  IF ~loc.ok THEN ReadPanic({})
                          ELSE IF ~isfree.ok \/ isfree.free THEN ReadPanic({b})
                          ELSE IF ~cells.ok THEN ReadPanic({b})
                          ELSE [ok |-> TRUE, slice |-> cells.slice,
                                ref_count |-> ref_count(index_bucket, ix),
                                reads |-> {b}]
        ELSE [ok |-> TRUE, slice |-> <<>>,
              ref_count |-> ref_count(index_bucket, ix), reads |-> {}]

\* ------------------------------------------------------------ state

VARIABLES
    index_bucket,   \* BucketStorage<IndexBucket>: the cells are IndexEntry records
    data_buckets,   \* [BucketStorage<DataBucket>]: bucket b has cells of 2^b elements
    last,           \* the last call: its name, handle, argument, outcome and result
    objects,        \* the AccountsIndexStorage objects, and where the drop of each is
    threads         \* the background threads of each object

vars == <<index_bucket, data_buckets, last, objects, threads>>

\* The bucket map side and the accounts index storage side of the state.
buckets == <<index_bucket, data_buckets, last>>

lifecycle == <<objects, threads>>

NoValue == <<>>

Call(op, ix, arg, ok, ret) == [op |-> op, ix |-> ix, arg |-> arg, ok |-> ok, ret |-> ret]

\* A panic ends the thread that ran the call: nothing runs after it.
Running == last.ok

\* The cells of the index bucket a handle can be bound to.
Handles == DOMAIN index_bucket.cells

DataBucketIds == 0 .. (NumDataBuckets - 1)

\* ------------------------------------------------------------ accounts index storage

\* const DEFAULT_THREADS: the size of the pool of background threads.
DEFAULT_THREADS == 1

Instances == 1 .. NumInstances

\* Option<Vec<JoinHandle<()>>>; a join handle is the number of its thread.
None == [some |-> FALSE, vec |-> <<>>]

Some(vec) == [some |-> TRUE, vec |-> vec]

\* Arc::new(BucketMapHolder::new(bins)): an allocation is told apart from the
\* others by the object whose new made it and its number among those.
BucketMapHolderNew(i, nth, bins) == [owner |-> i, nth |-> nth, bins |-> bins]

\* InMemAccountsIndex::new(&storage, bin).
InMemAccountsIndexNew(storage, bin) == [storage |-> storage, bin |-> bin]

\* An object that new has not built.
Uninitialized ==
    [state |-> "Uninitialized", pc |-> 0, exit |-> FALSE, handles |-> None,
     storage |-> BucketMapHolderNew(0, 0, 0), in_mem |-> <<>>,
     joining |-> <<>>, shutdowns |-> 0]

\* A spawned thread: it is at the top of the loop of background, with its
\* clone of the holder; joins counts the join calls that returned for it, and
\* late_reports its calls of the stats hook with the exit flag set.
Spawned(storage_) ==
    [pc |-> "loop", timed_out |-> FALSE, storage |-> storage_, joins |-> 0, late_reports |-> 0]

\* new with a holder of its own for every in-memory index.
new_holder_per_bin(i, bins) ==
    LET storage == BucketMapHolderNew(i, 0, bins)
    IN  [object |-> [state |-> "Running", pc |-> 0, exit |-> FALSE,
                     handles |-> Some([t \in 1 .. DEFAULT_THREADS |-> t]),
                     storage |-> storage,
                     in_mem |-> [b \in 1 .. bins |->
                                    InMemAccountsIndexNew(BucketMapHolderNew(i, b, bins), b - 1)],
                     joining |-> <<>>, shutdowns |-> 0],
         threads |-> [t \in 1 .. DEFAULT_THREADS |-> Spawned(storage)]]

\* AccountsIndexStorage::new(bins, _config) for object i: the object and its
\* threads.  in_mem[b] is the index of bin b - 1 (sequences start at 1).
new(i, bins) ==
    LET storage == BucketMapHolderNew(i, 0, bins)
    IN  [object |-> [state |-> "Running", pc |-> 0, exit |-> FALSE,
                     handles |-> Some([t \in 1 .. DEFAULT_THREADS |-> t]),
                     storage |-> storage,
                     in_mem |-> [b \in 1 .. bins |-> InMemAccountsIndexNew(storage, b - 1)],
                     joining |-> <<>>, shutdowns |-> 0],
         threads |-> [t \in 1 .. DEFAULT_THREADS |-> Spawned(storage)]]

\* new with let threads = DEFAULT_THREADS replaced by a pool of the given
\* size: (0..threads) spawns that many threads and collects their handles.
new_with_pool(i, bins, pool) ==
    LET r == new(i, bins)
    IN  [object |-> [r.object EXCEPT !.handles = Some([t \in 1 .. pool |-> t])],
         threads |-> [t \in 1 .. pool |-> Spawned(r.object.storage)]]

\* AccountsIndexStorage::storage() (the name storage is taken by the buckets).
storage_accessor(self) == self.storage

\* The statements of drop, in order.
DropStatementsNotifyFirst == <<"wait.notify_all", "exit.store", "handles.take", "join">>

DropStatements == <<"exit.store", "wait.notify_all", "handles.take", "join">>

\* The statement the drop of an object is at.
Statement(self) == IF self.state = "ShuttingDown" THEN DropStatements[self.pc] ELSE "none"

\* drop is entered, a statement of it is done, drop returns.
Enter(self) == [self EXCEPT !.state = "ShuttingDown", !.pc = 1, !.shutdowns = @ + 1]

Advance(self) == [self EXCEPT !.pc = @ + 1]

\* A drop that leaves the object running again.
Return_to_running(self) == [self EXCEPT !.state = "Running", !.pc = 0, !.joining = <<>>]

Return(self) == [self EXCEPT !.state = "Joined", !.pc = 0, !.joining = <<>>]

\* unwrap of the Err that join returns for a panicked thread: drop panics,
\* and the handles not joined yet are dropped with the iterator.
Unwind(self) == [self EXCEPT !.state = "Panicked", !.pc = 0, !.joining = <<>>]

\* An exit flag that is not set.
exit_store_skipped(objs, i) == objs

\* An exit flag shared by all the objects.
exit_store_global(objs, i) == [j \in DOMAIN objs |-> [objs[j] EXCEPT !.exit = TRUE]]

\* self.exit.store(true, Ordering::Relaxed)
exit_store(objs, i) == [objs EXCEPT ![i].exit = TRUE]

\* WaitableCondvar::notify_all: every thread that is blocked in the wait
\* returns from it; a thread that is not in the wait is not affected.
notify_all(ths) ==
    [t \in DOMAIN ths |->
        IF ths[t].pc = "waiting"
        THEN [ths[t] EXCEPT !.pc = "woken", !.timed_out = FALSE]
        ELSE ths[t]]

\* Handles that are read and left in place.
handles_peek(self) == self

\* self.handles.take(): None is left in the object.
handles_take(self) == [self EXCEPT !.handles = None]

\* A join that does not wait for its thread.
join_returns_at_once(thread) == TRUE

\* handle.join() returns once its thread has ended, by return or by panic.
join_returns(thread) == thread.pc \in {"done", "panicked"}

\* A loop that does not look at the exit flag.
exit_load_ignored(thread, exit) ==
    [thread EXCEPT !.pc = "stats", !.timed_out = FALSE]

\* if exit.load(Ordering::Relaxed) { break; }  The result of wait_timeout was
\* dropped at the end of its statement.
exit_load(thread, exit) ==
    [thread EXCEPT !.pc = IF exit THEN "done" ELSE "stats", !.timed_out = FALSE]

\* index_bucket_for_testing(): a new, zero-filled index bucket; the data
\* buckets are new as well, each of one cell.
Init ==
    /\ index_bucket = BucketStorageNew(IndexCapacityPow2, ZeroEntry)
    /\ data_buckets = [b \in DataBucketIds |-> BucketStorageNew(0, ZeroCell(b))]
    /\ last = Call("new", 0, NoValue, TRUE, NoValue)
    /\ objects = [i \in Instances |-> Uninitialized]
    /\ threads = [i \in Instances |-> <<>>]

\* ------------------------------------------------------------ entry handle calls

InitEntry(ix, pubkey) ==
    /\ Running
    /\ index_bucket' = init(index_bucket, ix, pubkey)
    /\ last' = Call("init", ix, pubkey, TRUE, NoValue)
    /\ UNCHANGED <<data_buckets, lifecycle>>

SetStorageCapacity(ix, pow2) ==
    /\ Running
    /\ index_bucket' = set_storage_capacity_when_created_pow2(index_bucket, ix, pow2)
    /\ last' = Call("set_storage_capacity_when_created_pow2", ix, pow2, TRUE, NoValue)
    /\ UNCHANGED <<data_buckets, lifecycle>>

SetStorageOffset(ix, value) ==
    LET r == set_storage_offset(index_bucket, ix, value)
    IN  /\ Running
        /\ index_bucket' = r.index_bucket
        /\ last' = Call("set_storage_offset", ix, value, r.ok, r.msg)
        /\ UNCHANGED <<data_buckets, lifecycle>>

SetRefCount(ix, rc) ==
    /\ Running
    /\ index_bucket' = set_ref_count(index_bucket, ix, rc)
    /\ last' = Call("set_ref_count", ix, rc, TRUE, NoValue)
    /\ UNCHANGED <<data_buckets, lifecycle>>

SetNumSlots(ix, n) ==
    /\ Running
    /\ index_bucket' = set_num_slots(index_bucket, ix, n)
    /\ last' = Call("set_num_slots", ix, n, TRUE, NoValue)
    /\ UNCHANGED <<data_buckets, lifecycle>>

\* A read-only call: only its result is recorded.
Getter(op, ix, ret) ==
    /\ Running
    /\ last' = Call(op, ix, NoValue, TRUE, ret)
    /\ UNCHANGED <<index_bucket, data_buckets, lifecycle>>

GetKey(ix) == Getter("key", ix, key(index_bucket, ix))

GetRefCount(ix) == Getter("ref_count", ix, ref_count(index_bucket, ix))

GetNumSlots(ix) == Getter("num_slots", ix, num_slots(index_bucket, ix))

GetStorageOffset(ix) == Getter("storage_offset", ix, storage_offset(index_bucket, ix))

GetStorageCapacity(ix) ==
    Getter("storage_capacity_when_created_pow2", ix,
           storage_capacity_when_created_pow2(index_bucket, ix))

DataBucketIx(ix) == Getter("data_bucket_ix", ix, data_bucket_ix(index_bucket, ix))

\* ------------------------------------------------------------ codec specification

\* The offsets of the tests and the two sides of the 56-bit boundary.
OffsetInputs ==
    {U64Zero, U64(1), U32Max, OffsetMax, U64Pow2(OffsetBits), U64LowOnes(U64Bits)}

\* The capacity exponents of the tests.
Pow2Inputs == {0, 1, 255}

Next ==
    \/ \E ix \in Handles, k \in Keys : InitEntry(ix, k)
    \/ \E ix \in Handles, v \in OffsetInputs : SetStorageOffset(ix, v)
    \/ \E ix \in Handles, p \in Pow2Inputs : SetStorageCapacity(ix, p)
    \/ \E ix \in Handles : GetStorageOffset(ix)
    \/ \E ix \in Handles : GetStorageCapacity(ix)

Spec == Init /\ [][Next]_vars

\* C3: round-trip independence of the two packed fields.  A successful
\* set_storage_offset makes storage_offset() return the value passed and leaves
\* storage_capacity_when_created_pow2() as it was; set_storage_capacity_when_created_pow2
\* makes its getter return the value passed and leaves storage_offset() as it
\* was; the getters return the fields and change nothing.  So each getter
\* returns the last value set for its field, in whatever order the setters ran.
C3_RoundTripIndependence ==
    [][/\ (last'.op = "set_storage_offset" /\ last'.ok) =>
            /\ storage_offset(index_bucket', last'.ix) = last'.arg
            /\ storage_capacity_when_created_pow2(index_bucket', last'.ix)
                   = storage_capacity_when_created_pow2(index_bucket, last'.ix)
       /\ last'.op = "set_storage_capacity_when_created_pow2" =>
            /\ storage_capacity_when_created_pow2(index_bucket', last'.ix) = last'.arg
            /\ storage_offset(index_bucket', last'.ix) = storage_offset(index_bucket, last'.ix)
       /\ last'.op = "storage_offset" =>
            /\ last'.ret = storage_offset(index_bucket, last'.ix)
            /\ index_bucket' = index_bucket
       /\ last'.op = "storage_capacity_when_created_pow2" =>
            /\ last'.ret = storage_capacity_when_created_pow2(index_bucket, last'.ix)
            /\ index_bucket' = index_bucket
      ]_vars

\* C3 witness: an offset of u32::MAX was set, then the exponent 255: both read back.
C3_Witness ==
    /\ last.op = "set_storage_capacity_when_created_pow2"
    /\ last.arg = 255
    /\ storage_offset(index_bucket, last.ix) = U32Max
    /\ storage_capacity_when_created_pow2(index_bucket, last.ix) = 255

\* offset < 2^56, stated on the bits: none of the bits 56..63 is set.
FitsOffsetField(value) == \A i \in OffsetBits .. (U64Bits - 1) : Bit(value, i) = 0

\* C4: set_storage_offset succeeds exactly when offset < 2^56; 2^56 fails with
\* the message of expect, 2^56 - 1 succeeds, and after a success
\* storage_offset() is the value passed, not a truncation of it.
C4_OffsetOverflowRejected ==
    last.op = "set_storage_offset" =>
        /\ last.ok <=> FitsOffsetField(last.arg)
        /\ last.arg = U64Pow2(OffsetBits) => ~last.ok
        /\ last.arg = U64LowOnes(OffsetBits) => last.ok
        /\ last.ok => storage_offset(index_bucket, last.ix) = last.arg
        /\ ~last.ok => last.ret = ExpectMessage

\* C4 witness: the call with exactly 2^56 has panicked.
C4_Witness ==
    /\ last.op = "set_storage_offset"
    /\ last.arg = U64Pow2(OffsetBits)
    /\ ~last.ok

\* ------------------------------------------------------------ occupancy specification

OccupyIndex(ix) ==
    LET r == occupy(index_bucket.occupied, ix)
    IN  /\ Running
        /\ index_bucket' = [index_bucket EXCEPT !.occupied = r.occupied]
        /\ last' = Call("occupy", ix, NoValue, r.ok, NoValue)
        /\ UNCHANGED <<data_buckets, lifecycle>>

FreeIndex(ix) ==
    LET r == free(index_bucket.occupied, ix)
    IN  /\ Running
        /\ index_bucket' = [index_bucket EXCEPT !.occupied = r.occupied]
        /\ last' = Call("free", ix, NoValue, r.ok, NoValue)
        /\ UNCHANGED <<data_buckets, lifecycle>>

IsFreeIndex(ix) == Getter("is_free", ix, is_free(index_bucket.occupied, ix))

\* init runs on a cell the tracker has marked occupied.
InitOccupied(ix, pubkey) ==
    /\ ~is_free(index_bucket.occupied, ix)
    /\ InitEntry(ix, pubkey)

NextOccupancy ==
    \/ \E ix \in Handles : OccupyIndex(ix)
    \/ \E ix \in Handles : FreeIndex(ix)
    \/ \E ix \in Handles : IsFreeIndex(ix)
    \/ \E ix \in Handles, k \in Keys : InitOccupied(ix, k)

SpecOccupancy == Init /\ [][NextOccupancy]_vars

\* C9: occupy on an occupied index panics (the call is never accepted) and
\* leaves the occupancy bits as they were.
C9_DoubleOccupyFatal ==
    [][(last'.op = "occupy" /\ ~is_free(index_bucket.occupied, last'.ix)) =>
            /\ ~last'.ok
            /\ index_bucket'.occupied = index_bucket.occupied
      ]_vars

\* C9 witness: an occupy has panicked on a cell that is occupied.
C9_Witness ==
    /\ last.op = "occupy"
    /\ ~last.ok
    /\ ~is_free(index_bucket.occupied, last.ix)

\* C10: free on a free index panics (the call is never accepted) and leaves
\* the occupancy bits as they were; so does free on a tracker fresh from new.
C10_DoubleFreeFatal ==
    [][(last'.op = "free" /\ is_free(index_bucket.occupied, last'.ix)) =>
            /\ ~last'.ok
            /\ index_bucket'.occupied = index_bucket.occupied
      ]_vars

\* C10 witness: a free has panicked on a tracker where no cell was ever occupied.
C10_Witness ==
    /\ last.op = "free"
    /\ ~last.ok
    /\ index_bucket = BucketStorageNew(IndexCapacityPow2, ZeroEntry)

\* ------------------------------------------------------------ size class specification

\* The slot counts of the tests: 0 .. 512, the 32-bit boundary, and the top of u64.
SizeClassInputs ==
    {U64(n) : n \in 0 .. MaxSmallSlots}
        \cup {U32Max, U64Inc(U32Max), U64Inc(U64Inc(U32Max))}
        \cup {U64Pow2(U64Bits - 1), U64Inc(U64Pow2(U64Bits - 1)), U64LowOnes(U64Bits)}

NextSizeClass ==
    \/ \E n \in SizeClassInputs : SetNumSlots(0, n)
    \/ DataBucketIx(0)

SpecSizeClass == Init /\ [][NextSizeClass]_vars

\* n <= 2^k on the bits of n (k <= 64): no bit above k, and bit k only alone.
LeqPow2(n, k) ==
    \/ k = U64Bits
    \/ /\ \A i \in (k + 1) .. (U64Bits - 1) : Bit(n, i) = 0
       /\ Bit(n, k) = 1 => \A i \in 0 .. (k - 1) : Bit(n, i) = 0

\* The smallest k with 2^k >= n.
CeilLog2(n) ==
    CHOOSE k \in 0 .. U64Bits :
        LeqPow2(n, k) /\ \A j \in 0 .. U64Bits : j < k => ~LeqPow2(n, j)

\* The same for a small n, on numbers.
CeilLog2Nat(n) ==
    CHOOSE k \in 0 .. 31 : Pow2Nat(k) >= n /\ \A j \in 0 .. 31 : j < k => Pow2Nat(j) < n

\* C5: data_bucket_from_num_slots(n) is 0 for n = 0 and otherwise the smallest
\* k with 2^k >= n, for every n in 0..512 and at the 32-bit boundary; a power
\* of two maps to its logarithm; u32::MAX -> 32, u32::MAX + 1 -> 32,
\* u32::MAX + 2 -> 33.
C5_SizeClassIsCeilLog2 ==
    last.op = "data_bucket_ix" =>
        LET n == num_slots(index_bucket, last.ix)
        IN  /\ n = U64Zero => last.ret = 0
            /\ n /= U64Zero => last.ret = CeilLog2(n)
            /\ (n /= U64Zero /\ U64Below(n, Pow2Nat(30))) =>
                   last.ret = CeilLog2Nat(U64ToNat(n))
            /\ \A k \in 0 .. (U64Bits - 1) : n = U64Pow2(k) => last.ret = k
            /\ n = U32Max => last.ret = 32
            /\ n = U64Inc(U32Max) => last.ret = 32
            /\ n = U64Inc(U64Inc(U32Max)) => last.ret = 33

\* C5 witness: the size class of u32::MAX + 2 was computed, and is 33.
C5_Witness ==
    /\ last.op = "data_bucket_ix"
    /\ num_slots(index_bucket, last.ix) = U64Inc(U64Inc(U32Max))
    /\ last.ret = 33

\* ------------------------------------------------------------ addressing specification

\* BucketStorage::grow on data bucket b, up to the capacity exponent max_pow2.
GrowData(b, max_pow2) ==
    /\ Running
    /\ data_buckets[b].capacity_pow2 < max_pow2
    /\ data_buckets' = [data_buckets EXCEPT ![b] = grow(@)]
    /\ last' = Call("grow", b, NoValue, TRUE, NoValue)
    /\ UNCHANGED <<index_bucket, lifecycle>>

\* data_loc of the entry at ix against data bucket b, in a build with or
\* without overflow checks.
DataLoc(ix, b) ==
    \E overflow_checks \in BOOLEAN :
        LET r == data_loc(index_bucket, ix, data_buckets[b], overflow_checks)
        IN  /\ Running
            /\ last' = Call("data_loc", ix, b, r.ok, r.loc)
            /\ UNCHANGED <<index_bucket, data_buckets, lifecycle>>

\* Offsets of one bit, of two bits, of 32 bits and of all 56 bits.
LocOffsetInputs == {U64Zero, U64(1), U64(3), U32Max, OffsetMax}

\* Recorded exponents: those a bucket of the model can have had, and 255.
LocPow2Inputs == (0 .. 2) \cup {255}

NextLoc ==
    \/ \E v \in LocOffsetInputs : SetStorageOffset(0, v)
    \/ \E p \in LocPow2Inputs : SetStorageCapacity(0, p)
    \/ GrowData(0, MaxLocCapacityPow2)
    \/ \E b \in DataBucketIds : DataLoc(0, b)

SpecLoc == Init /\ [][NextLoc]_vars

RECURSIVE SumBytes(_, _, _, _)
\* The bytes i .. 7 of x + y, given the carry c into byte i.
SumBytes(x, y, i, c) ==
    IF i > 7 THEN <<>>
    ELSE LET t == Byte(x, i) + Byte(y, i) + c
         IN  <<t % U8Mod>> \o SumBytes(x, y, i + 1, t \div U8Mod)

\* x + y modulo 2^64.
U64Add(x, y) == SumBytes(x, y, 0, 0)

RECURSIVE TimesPow2(_, _)
\* x * 2^s modulo 2^64, by s doublings.
TimesPow2(x, s) == IF s = 0 THEN x ELSE TimesPow2(U64Add(x, x), s - 1)

\* C1: with a recorded exponent c0 and offset o and a data bucket of current
\* exponent c1 >= c0, data_loc returns o << (c1 - c0) (o doubled c1 - c0
\* times, as a u64), in a build with or without overflow checks; for c1 = c0
\* that is o itself.
C1_DataLocShift ==
    last.op = "data_loc" =>
        LET c0 == storage_capacity_when_created_pow2(index_bucket, last.ix)
            c1 == data_buckets[last.arg].capacity_pow2
            o  == storage_offset(index_bucket, last.ix)
        IN  c1 >= c0 =>
                /\ last.ok
                /\ last.ret = TimesPow2(o, c1 - c0)
                /\ c1 = c0 => last.ret = o

\* C1 witness: an offset of u32::MAX recorded at exponent 0 was remapped
\* against a bucket that has doubled three times.
C1_Witness ==
    /\ last.op = "data_loc"
    /\ last.ok
    /\ storage_offset(index_bucket, last.ix) = U32Max
    /\ data_buckets[last.arg].capacity_pow2
           = storage_capacity_when_created_pow2(index_bucket, last.ix) + 3

\* ------------------------------------------------------------ allocator specification

\* The owner of the buckets (the bucket map of one bin): it creates a key in a
\* free index cell, stores the key's slot list in a cell of the data bucket of
\* its size class, grows a data bucket by doubling, and deletes a key.

\* The longest slot list the data buckets of the model hold.
MaxSlots == Pow2Nat(NumDataBuckets - 1)

Occupied(ix) == ~is_free(index_bucket.occupied, ix)

HasKey(pubkey) == \E i \in Handles : Occupied(i) /\ key(index_bucket, i) = pubkey

\* Create a key: the tracker marks a free cell occupied, then init.
CreateKey(ix, pubkey) ==
    LET r == occupy(index_bucket.occupied, ix)
    IN  /\ Running
        /\ ~Occupied(ix)
        /\ ~HasKey(pubkey)
        /\ index_bucket' = init([index_bucket EXCEPT !.occupied = r.occupied], ix, pubkey)
        /\ last' = Call("create_key", ix, pubkey, r.ok, NoValue)
        /\ UNCHANGED <<data_buckets, lifecycle>>

\* The data cell of the entry at ix, when it has one: the bucket and the cell.
OldBucket(ix) == data_bucket_ix(index_bucket, ix)

OldLoc(ix) == U64ToNat(data_loc(index_bucket, ix, data_buckets[OldBucket(ix)], FALSE).loc)

\* The data buckets with the data cell of the entry at ix freed, if it has one.
FreeOld(ix) ==
    IF num_slots(index_bucket, ix) = U64Zero THEN data_buckets
    ELSE [data_buckets EXCEPT ![OldBucket(ix)].occupied = free(@, OldLoc(ix)).occupied]

\* Storage of a slot list of n records for the key at ix.  A list of the size
\* class the entry already has is written in place; otherwise a free cell loc
\* of the new size class is taken (any one), the bucket's capacity exponent of
\* this moment and loc are recorded in the entry, and the old cell is freed.
TryWrite(ix, n) ==
    LET b == data_bucket_from_num_slots(U64(n))
        pubkey == key(index_bucket, ix)
        in_place == num_slots(index_bucket, ix) /= U64Zero /\ OldBucket(ix) = b
        write(cell) == [j \in 1 .. Len(cell) |-> IF j <= n THEN <<pubkey, j>> ELSE cell[j]]
        moved(loc) ==
            set_num_slots(
                set_storage_capacity_when_created_pow2(
                    set_storage_offset(index_bucket, ix, U64(loc)).index_bucket,
                    ix, data_buckets[b].capacity_pow2),
                ix, U64(n))
    IN  /\ Running
        /\ Occupied(ix)
        /\ b \in DataBucketIds
        /\ IF in_place
           THEN /\ index_bucket' = set_num_slots(index_bucket, ix, U64(n))
                /\ data_buckets' = [data_buckets EXCEPT ![b].cells[OldLoc(ix)] = write(@)]
           ELSE IF n = 0
           THEN /\ index_bucket' = set_num_slots(index_bucket, ix, U64Zero)
                /\ data_buckets' = FreeOld(ix)
           ELSE \E loc \in DOMAIN data_buckets[b].cells :
                    /\ is_free(data_buckets[b].occupied, loc)
                    /\ index_bucket' = moved(loc)
                    /\ data_buckets' =
                           [FreeOld(ix) EXCEPT ![b].occupied = occupy(@, loc).occupied,
                                               ![b].cells[loc] = write(@)]
        /\ last' = Call("try_write", ix, n, TRUE, NoValue)
        /\ UNCHANGED lifecycle

\* read_value of the entry at ix, handed the first len data buckets.
ReadValue(ix, len) ==
    \E overflow_checks \in BOOLEAN :
        LET slice == [b \in 0 .. (len - 1) |-> data_buckets[b]]
            r == read_value(index_bucket, ix, slice, overflow_checks)
        IN  /\ Running
            /\ last' = Call("read_value", ix, len, r.ok,
                            [slice |-> r.slice, ref_count |-> r.ref_count, reads |-> r.reads])
            /\ UNCHANGED <<index_bucket, data_buckets, lifecycle>>

RECURSIVE SumPow2(_)
\* The doublings so far: the sum of the capacity exponents of the data buckets 0 .. b.
SumPow2(b) == IF b < 0 THEN 0 ELSE data_buckets[b].capacity_pow2 + SumPow2(b - 1)

Doublings == SumPow2(NumDataBuckets - 1)

\* A first allocation for the entry at ix, or a list of the size class it has.
Allocates(ix, n) ==
    /\ n > 0
    /\ \/ num_slots(index_bucket, ix) = U64Zero
       \/ data_bucket_ix(index_bucket, ix) = data_bucket_from_num_slots(U64(n))

NextAlloc ==
    \/ \E ix \in Handles, k \in Keys : CreateKey(ix, k)
    \/ \E ix \in Handles, n \in 1 .. MaxSlots : Allocates(ix, n) /\ TryWrite(ix, n)
    \/ \E b \in DataBucketIds : Doublings < MaxCapacityPow2 /\ GrowData(b, MaxCapacityPow2)

SpecAlloc == Init /\ [][NextAlloc]_vars

\* The entry at ix addresses its own slot list: data_loc, taken against the
\* data bucket of the entry's size class, is an occupied cell of that bucket
\* that holds the records stored for the entry's key.
AddressesOwnList(ix) ==
    LET n == num_slots(index_bucket, ix)
        storage == data_buckets[data_bucket_ix(index_bucket, ix)]
    IN  n /= U64Zero =>
            \A overflow_checks \in BOOLEAN :
                LET r == data_loc(index_bucket, ix, storage, overflow_checks)
                IN  /\ r.ok
                    /\ U64Below(r.loc, capacity(storage))
                    /\ ~is_free(storage.occupied, U64ToNat(r.loc))
                    /\ \A j \in 1 .. U64ToNat(n) :
                           storage.cells[U64ToNat(r.loc)][j] = <<key(index_bucket, ix), j>>

\* C2: resize without rewrite.  Under an allocator that records the bucket's
\* exponent and the offset of the moment of allocation and grows a data
\* bucket only by doubling (cell i moves to cell 2 * i), after any sequence of
\* allocations and doublings data_loc of every entry addresses the cell that
\* was allocated for it, and a doubling writes nothing to the index bucket.
C2_ResizeWithoutRewrite ==
    /\ [](\A ix \in Handles : Occupied(ix) => AddressesOwnList(ix))
    /\ [][last'.op = "grow" => index_bucket' = index_bucket]_vars

\* C2 witness: an entry allocated at a cell other than cell 0 whose bucket
\* has doubled since.
C2_Witness ==
    \E ix \in Handles :
        /\ Occupied(ix)
        /\ num_slots(index_bucket, ix) /= U64Zero
        /\ storage_offset(index_bucket, ix) /= U64Zero
        /\ data_buckets[data_bucket_ix(index_bucket, ix)].capacity_pow2
               > storage_capacity_when_created_pow2(index_bucket, ix)
        /\ last.op = "grow"

\* ------------------------------------------------------------ read specification

\* The allocator, and a caller that reads values, handing read_value all the
\* data buckets or none.  The caller sets the ref_count of an entry, and from
\* then on the allocator leaves the entry alone and the caller sets its
\* num_slots directly, which may then disagree with what was allocated.
RefCountInputs == {U64(7)}

\* The entry that is given a slot list and that the caller sets and reads.
ReadHandles == {0}

Published(ix) == ref_count(index_bucket, ix) /= U64Zero

NextRead ==
    \/ \E ix \in Handles, k \in Keys : CreateKey(ix, k)
    \/ \E ix \in ReadHandles, n \in 1 .. MaxSlots :
           ~Published(ix) /\ Allocates(ix, n) /\ TryWrite(ix, n)
    \/ \E b \in DataBucketIds : Doublings < MaxCapacityPow2 /\ GrowData(b, MaxCapacityPow2)
    \/ \E ix \in ReadHandles, n \in 0 .. MaxSlots : Published(ix) /\ SetNumSlots(ix, U64(n))
    \/ \E ix \in ReadHandles, rc \in RefCountInputs : SetRefCount(ix, rc)
    \/ \E ix \in ReadHandles, len \in {0, NumDataBuckets} : ReadValue(ix, len)

SpecRead == Init /\ [][NextRead]_vars

\* What a read_value call was about, taken from the state it ran in (a
\* read changes no bucket): the entry's slot count, the size class of that
\* count, and the cell its recorded offset and exponent stand for in the data
\* bucket of that class.
ReadCount == num_slots(index_bucket, last.ix)

ReadClass == CeilLog2(ReadCount)

\* The entry's size class is one of the buckets handed in, and the bucket's
\* exponent is not below the recorded one.
ReadTargetDefined ==
    /\ ReadCount /= U64Zero
    /\ ReadClass < last.arg
    /\ data_buckets[ReadClass].capacity_pow2
           >= storage_capacity_when_created_pow2(index_bucket, last.ix)

ReadTarget ==
    TimesPow2(storage_offset(index_bucket, last.ix),
              data_buckets[ReadClass].capacity_pow2
                  - storage_capacity_when_created_pow2(index_bucket, last.ix))

ReadTargetInBucket == U64Below(ReadTarget, capacity(data_buckets[ReadClass]))

\* C6: an entry fresh from init has num_slots = 0, and read_value of an entry
\* with num_slots = 0 returns the empty slice and the entry's ref_count and
\* dereferences no data bucket, whatever offset and exponent the entry records
\* and also when it is handed no data bucket at all.
C6_EmptyListNoAllocation ==
    /\ []((last.op = "read_value" /\ ReadCount = U64Zero) =>
            /\ last.ok
            /\ last.ret.slice = <<>>
            /\ last.ret.ref_count = ref_count(index_bucket, last.ix)
            /\ last.ret.reads = {})
    /\ [][last'.op = "create_key" => num_slots(index_bucket', last'.ix) = U64Zero]_vars

\* C6 witness: an entry that records a non-zero offset and has num_slots = 0
\* was read with an empty slice of data buckets.
C6_Witness ==
    /\ last.op = "read_value"
    /\ last.arg = 0
    /\ last.ok
    /\ ReadCount = U64Zero
    /\ storage_offset(index_bucket, last.ix) /= U64Zero
    /\ ref_count(index_bucket, last.ix) /= U64Zero

\* C7: for an entry with num_slots = n > 0 whose target cell is occupied,
\* read_value reads the data bucket of index ceil(log2(n)) and no other, and
\* returns the n elements from the start of cell data_loc of that bucket,
\* with the entry's current ref_count.
C7_ReadValueSlice ==
    (last.op = "read_value" /\ ReadTargetDefined /\ ReadTargetInBucket
        /\ ~is_free(data_buckets[ReadClass].occupied, U64ToNat(ReadTarget))) =>
        /\ last.ok
        /\ last.ret.reads = {ReadClass}
        /\ Len(last.ret.slice) = U64ToNat(ReadCount)
        /\ \A j \in 1 .. U64ToNat(ReadCount) :
               last.ret.slice[j] = data_buckets[ReadClass].cells[U64ToNat(ReadTarget)][j]
        /\ last.ret.ref_count = ref_count(index_bucket, last.ix)

\* C7 witness: a list of two records, allocated at a cell other than cell 0
\* of a bucket that has doubled since, was read back with a non-zero ref_count.
C7_Witness ==
    /\ last.op = "read_value"
    /\ last.ok
    /\ ReadCount = U64(2)
    /\ last.ret.slice = <<<<key(index_bucket, last.ix), 1>>, <<key(index_bucket, last.ix), 2>>>>
    /\ storage_offset(index_bucket, last.ix) /= U64Zero
    /\ ReadTarget /= storage_offset(index_bucket, last.ix)
    /\ last.ret.ref_count = U64(7)

\* C8: read_value of an entry with num_slots > 0 whose data_loc is a free
\* cell of the selected data bucket panics and returns no slice.
C8_ReadFreeCellFatal ==
    (last.op = "read_value" /\ ReadTargetDefined /\ ReadTargetInBucket
        /\ is_free(data_buckets[ReadClass].occupied, U64ToNat(ReadTarget))) =>
        /\ ~last.ok
        /\ last.ret.slice = <<>>

\* C8 witness: a read has panicked on a free cell of the selected bucket.
C8_Witness ==
    /\ last.op = "read_value"
    /\ ~last.ok
    /\ ReadTargetDefined
    /\ ReadTargetInBucket
    /\ is_free(data_buckets[ReadClass].occupied, U64ToNat(ReadTarget))

\* ------------------------------------------------------------ cell reuse specification

\* A cell of the index bucket is occupied, initialised, written through the
\* setters, freed (its bytes stay) and occupied again.  init follows occupy, as
\* in the allocator; the call record of init keeps the bytes the cell held.
InitOver(ix, pubkey) ==
    /\ Running
    /\ last.op = "occupy"
    /\ last.ix = ix
    /\ index_bucket' = init(index_bucket, ix, pubkey)
    /\ last' = Call("init", ix, pubkey, TRUE, get(index_bucket, ix))
    /\ UNCHANGED <<data_buckets, lifecycle>>

ReuseHandles == {0}

ReuseOffsetInputs == {U64(3)}

ReusePow2Inputs == {1}

ReuseSlotInputs == {U64(2)}

NextReuse ==
    \/ \E ix \in ReuseHandles : is_free(index_bucket.occupied, ix) /\ OccupyIndex(ix)
    \/ \E ix \in ReuseHandles, k \in Keys : InitOver(ix, k)
    \/ \E ix \in ReuseHandles, rc \in RefCountInputs : Occupied(ix) /\ SetRefCount(ix, rc)
    \/ \E ix \in ReuseHandles, v \in ReuseOffsetInputs : Occupied(ix) /\ SetStorageOffset(ix, v)
    \/ \E ix \in ReuseHandles, p \in ReusePow2Inputs : Occupied(ix) /\ SetStorageCapacity(ix, p)
    \/ \E ix \in ReuseHandles, n \in ReuseSlotInputs : Occupied(ix) /\ SetNumSlots(ix, n)
    \/ \E ix \in ReuseHandles : Occupied(ix) /\ FreeIndex(ix)

SpecReuse == Init /\ [][NextReuse]_vars

\* C11: after init(bucket, key) the entry has the key given, ref_count 0,
\* recorded offset 0, recorded capacity exponent 0 and num_slots 0, whatever
\* the cell held before the call.
C11_InitClearsEntry ==
    last.op = "init" =>
        /\ key(index_bucket, last.ix) = last.arg
        /\ ref_count(index_bucket, last.ix) = U64Zero
        /\ storage_offset(index_bucket, last.ix) = U64Zero
        /\ storage_capacity_when_created_pow2(index_bucket, last.ix) = 0
        /\ num_slots(index_bucket, last.ix) = U64Zero
        /\ get(index_bucket, last.ix).storage_cap_and_offset = U64Zero

\* C11 witness: init has run on a cell that held another key and non-zero
\* ref_count, offset, exponent and num_slots, left by an earlier use of the
\* cell that was freed and occupied again.
C11_Witness ==
    /\ last.op = "init"
    /\ last.ret.key \notin {ZeroKey, last.arg}
    /\ last.ret.ref_count /= U64Zero
    /\ offset(last.ret.storage_cap_and_offset) /= U64Zero
    /\ capacity_when_created_pow2(last.ret.storage_cap_and_offset) /= 0
    /\ last.ret.num_slots /= U64Zero

\* ------------------------------------------------------------ record layout

\* A field of a #[repr(C)] struct: its size and its alignment, in bytes.
Field(size, align) == [size |-> size, align |-> align]

\* Pubkey: 32 bytes.
PubkeyField == Field(32, 1)

\* RefCount and Slot: u64.
U64Field == Field(U64Bits \div 8, U64Bits \div 8)

\* #[bitfield(bits = 64)] PackedStorage: the bits of its fields, as a byte array.
PackedStorageField == Field((CapBits + OffsetBits) \div 8, 1)

\* struct IndexEntry { key, ref_count, storage_cap_and_offset, num_slots }
IndexEntryFields == <<PubkeyField, U64Field, PackedStorageField, U64Field>>

RoundUp(n, align) == ((n + align - 1) \div align) * align

RECURSIVE EndOfFields(_, _)
\* The end of the last of the first k fields, each at the next offset of its alignment.
EndOfFields(fields, k) ==
    IF k = 0 THEN 0
    ELSE RoundUp(EndOfFields(fields, k - 1), fields[k].align) + fields[k].size

RECURSIVE MaxAlign(_, _)
MaxAlign(fields, k) ==
    IF k = 0 THEN 1
    ELSE IF fields[k].align > MaxAlign(fields, k - 1) THEN fields[k].align
         ELSE MaxAlign(fields, k - 1)

\* std::mem::size_of of a #[repr(C)] struct.
size_of(fields) == RoundUp(EndOfFields(fields, Len(fields)), MaxAlign(fields, Len(fields)))

\* capacity + 2^8 * offset, as a u64.
PackedValue(cap, off) == U64Add(U64(cap), TimesPow2(off, 8))

\* C12: the packed storage word of every entry equals
\* capacity_when_created_pow2 + 2^8 * offset with the exponent below 2^8 and
\* the offset below 2^56, so the exponent is bits [0,8), the offset is bits
\* [8,64) and no bit is shared or unused; a setter moves the word to the
\* value with its field replaced; PackedStorage is 8 bytes and IndexEntry is
\* 32 + 8 + 8 + 8 = 56 bytes.
C12_PackedLayout ==
    /\ [](\A ix \in Handles :
            LET word == get(index_bucket, ix).storage_cap_and_offset
            IN  /\ word = PackedValue(capacity_when_created_pow2(word), offset(word))
                /\ capacity_when_created_pow2(word) \in 0 .. 255
                /\ ~U64Gt(offset(word), U64LowOnes(56)))
    /\ [](/\ size_of(<<PackedStorageField>>) = 8
          /\ size_of(IndexEntryFields) = 56)
    /\ [][/\ (last'.op = "set_storage_offset" /\ last'.ok) =>
                get(index_bucket', last'.ix).storage_cap_and_offset
                    = PackedValue(storage_capacity_when_created_pow2(index_bucket, last'.ix),
                                  last'.arg)
          /\ last'.op = "set_storage_capacity_when_created_pow2" =>
                get(index_bucket', last'.ix).storage_cap_and_offset
                    = PackedValue(last'.arg, storage_offset(index_bucket, last'.ix))]_vars

\* C12 witness: a word with the largest exponent and the largest offset, all
\* 64 bits set, has been stored by the setters.
C12_Witness ==
    \E ix \in Handles :
        /\ get(index_bucket, ix).storage_cap_and_offset = U64LowOnes(U64Bits)
        /\ storage_capacity_when_created_pow2(index_bucket, ix) = 255
        /\ storage_offset(index_bucket, ix) = OffsetMax

\* ------------------------------------------------------------ lifecycle actions

ThreadIds(i) == DOMAIN threads[i]

New(i, bins) ==
    LET r == new(i, bins)
    IN  /\ objects[i].state = "Uninitialized"
        /\ objects' = [objects EXCEPT ![i] = r.object]
        /\ threads' = [threads EXCEPT ![i] = r.threads]
        /\ UNCHANGED buckets

\* The object goes out of scope: drop is entered.
DropEnter(i) ==
    /\ objects[i].state = "Running"
    /\ objects' = [objects EXCEPT ![i] = Enter(@)]
    /\ UNCHANGED <<threads, buckets>>

DropExitStore(i) ==
    /\ Statement(objects[i]) = "exit.store"
    /\ objects' = [exit_store(objects, i) EXCEPT ![i] = Advance(@)]
    /\ UNCHANGED <<threads, buckets>>

DropNotifyAll(i) ==
    /\ Statement(objects[i]) = "wait.notify_all"
    /\ threads' = [threads EXCEPT ![i] = notify_all(@)]
    /\ objects' = [objects EXCEPT ![i] = Advance(@)]
    /\ UNCHANGED buckets

\* if let Some(handles) = self.handles.take(): with None, and with no handle
\* to join, drop returns.
DropHandlesTake(i) ==
    LET handles == objects[i].handles
    IN  /\ Statement(objects[i]) = "handles.take"
        /\ objects' = [objects EXCEPT ![i] =
               IF handles.some /\ handles.vec /= <<>>
               THEN [Advance(handles_take(@)) EXCEPT !.joining = handles.vec]
               ELSE Return(handles_take(@))]
        /\ UNCHANGED <<threads, buckets>>

\* for_each(|handle| handle.join().unwrap()): the join of the next handle
\* returns; unwrap panics if the thread panicked; after the last handle drop
\* returns.
DropJoin(i) ==
    /\ Statement(objects[i]) = "join"
    /\ objects[i].joining /= <<>>
    /\ LET t == Head(objects[i].joining)
       IN  /\ join_returns(threads[i][t])
           /\ threads' = [threads EXCEPT ![i][t].joins = @ + 1]
           /\ objects' = [objects EXCEPT ![i] =
                  IF threads[i][t].pc = "panicked" THEN Unwind(@)
                  ELSE IF Tail(@.joining) = <<>> THEN Return(@)
                  ELSE [@ EXCEPT !.joining = Tail(@)]]
    /\ UNCHANGED buckets

\* A step of thread t of object i, from one place of background to the next.
ThreadStep(i, t, from, thread) ==
    /\ t \in ThreadIds(i)
    /\ threads[i][t].pc = from
    /\ threads' = [threads EXCEPT ![i][t] = thread]
    /\ UNCHANGED <<objects, buckets>>

\* wait.wait_timeout(Duration::from_millis(10000)): the thread blocks.
WaitTimeout(i, t) ==
    ThreadStep(i, t, "loop", [threads[i][t] EXCEPT !.pc = "waiting"])

\* The wait ends because the 10 seconds are over.
TimeoutExpires(i, t) ==
    ThreadStep(i, t, "waiting", [threads[i][t] EXCEPT !.pc = "woken", !.timed_out = TRUE])

\* The wait ends by a spurious wake-up of the condition variable.
SpuriousWake(i, t) ==
    ThreadStep(i, t, "waiting", [threads[i][t] EXCEPT !.pc = "woken", !.timed_out = FALSE])

ExitLoad(i, t) ==
    ThreadStep(i, t, "woken", exit_load(threads[i][t], objects[i].exit))

\* storage.stats.report_stats() is called and returns; the calls made with
\* the exit flag set are counted, up to MaxLateReports.
ReportStats(i, t) ==
    ThreadStep(i, t, "stats",
               [threads[i][t] EXCEPT
                    !.pc = "loop",
                    !.late_reports = IF objects[i].exit /\ @ < MaxLateReports THEN @ + 1 ELSE @])

\* storage.stats.report_stats() panics: the thread ends with the panic.
ReportStatsPanics(i, t) ==
    ThreadStep(i, t, "stats", [threads[i][t] EXCEPT !.pc = "panicked"])

PoolIds == 1 .. DEFAULT_THREADS

\* The steps of the objects in is and their threads; new takes its bins from bs.
LifecycleSteps(is, bs) ==
    \/ \E i \in is, bins \in bs : New(i, bins)
    \/ \E i \in is : DropEnter(i)
    \/ \E i \in is : DropExitStore(i)
    \/ \E i \in is : DropNotifyAll(i)
    \/ \E i \in is : DropHandlesTake(i)
    \/ \E i \in is : DropJoin(i)
    \/ \E i \in is, t \in PoolIds : WaitTimeout(i, t)
    \/ \E i \in is, t \in PoolIds : TimeoutExpires(i, t)
    \/ \E i \in is, t \in PoolIds : SpuriousWake(i, t)
    \/ \E i \in is, t \in PoolIds : ExitLoad(i, t)
    \/ \E i \in is, t \in PoolIds : ReportStats(i, t)

\* One object, built with any number of bins and dropped at any moment.
NextLifecycle == LifecycleSteps({1}, 0 .. MaxBins)

SpecLifecycle == Init /\ [][NextLifecycle]_vars

\* Every thread that can run does run, a drop that was entered goes on, and
\* the time of a wait passes.  Nothing makes the owner drop an object.
Scheduling ==
    \A i \in Instances :
        /\ WF_vars(DropExitStore(i) \/ DropNotifyAll(i) \/ DropHandlesTake(i) \/ DropJoin(i))
        /\ \A t \in PoolIds :
               /\ WF_vars(WaitTimeout(i, t) \/ ExitLoad(i, t) \/ ReportStats(i, t))
               /\ WF_vars(TimeoutExpires(i, t))

SpecShutdown == SpecLifecycle /\ Scheduling

\* All the objects, alive together, each built with MaxBins bins.
NextInstances == LifecycleSteps(Instances, {MaxBins})

SpecInstances == Init /\ [][NextInstances]_vars

\* Where thread t of object i is ("none" before new has spawned it).
ThreadPc(i, t) == IF t \in ThreadIds(i) THEN threads[i][t].pc ELSE "none"

\* C13: clean shutdown terminates.  Whatever bins the object was built with
\* and whenever it is dropped, a drop that was entered returns; once the exit
\* flag is set every background thread ends; a thread that returns from a
\* wait with the exit flag set leaves the loop there, so that it sees at most
\* one more wait time out; and neither a thread nor drop panics.
C13_CleanShutdownTerminates ==
    /\ \A i \in Instances :
           (objects[i].state = "ShuttingDown") ~> (objects[i].state = "Joined")
    /\ \A i \in Instances : \A t \in PoolIds :
           (objects[i].exit) ~> (ThreadPc(i, t) = "done")
    /\ [][\A i \in Instances : \A t \in PoolIds :
              (objects[i].exit /\ ThreadPc(i, t) = "woken") =>
                  threads'[i][t].pc \in {"woken", "done"}]_vars
    /\ [](\A i \in Instances :
              /\ objects[i].state /= "Panicked"
              /\ \A t \in PoolIds : ThreadPc(i, t) /= "panicked")

\* C13 witness: an object built with MaxBins bins has been dropped, drop has
\* returned, and its thread has left the loop and was joined.
C13_Witness ==
    \E i \in Instances :
        /\ objects[i].state = "Joined"
        /\ Len(objects[i].in_mem) = MaxBins
        /\ \A t \in PoolIds : ThreadPc(i, t) = "done" /\ threads[i][t].joins = 1

\* The threads of object i that a join has returned for.
Joined(i) == {t \in ThreadIds(i) : threads[i][t].joins > 0}

\* C14: no leaked threads.  When drop has returned, every thread that new
\* spawned has ended and has been joined, the joined threads are as many as
\* the spawned ones, and no handle is left in the object.
C14_NoLeakedThreads ==
    \A i \in Instances :
        objects[i].state = "Joined" =>
            /\ Len(threads[i]) = DEFAULT_THREADS
            /\ \A t \in ThreadIds(i) : threads[i][t].pc = "done"
            /\ Cardinality(Joined(i)) = Len(threads[i])
            /\ objects[i].handles = None
            /\ objects[i].joining = <<>>

\* C14 witness: drop has returned for an object whose thread was joined once
\* (here one built with no bins).
C14_Witness ==
    \E i \in Instances :
        /\ objects[i].state = "Joined"
        /\ objects[i].in_mem = <<>>
        /\ Joined(i) = PoolIds
        /\ \A t \in PoolIds : threads[i][t].joins = 1

\* The place of a statement in drop.
Position(statement) == CHOOSE k \in DOMAIN DropStatements : DropStatements[k] = statement

\* Object i does the statement of drop it is at.
Does(i, statement) == Statement(objects[i]) = statement /\ objects'[i] /= objects[i]

\* C15: shutdown ordering.  drop notifies with the exit flag already set and
\* joins with the notification already issued; the flag, once set, stays
\* set; a thread that is blocked in the wait when drop notifies is woken by
\* the notification; and a thread that is back from the wait with the flag
\* set ends without calling the stats hook again.
C15_ShutdownOrdering ==
    /\ Position("exit.store") < Position("wait.notify_all")
    /\ Position("wait.notify_all") < Position("join")
    /\ [][\A i \in Instances :
              /\ Does(i, "wait.notify_all") =>
                     /\ objects[i].exit
                     /\ \A t \in ThreadIds(i) :
                            threads[i][t].pc = "waiting" =>
                                /\ threads'[i][t].pc = "woken"
                                /\ objects'[i].exit
              /\ Does(i, "join") => objects[i].exit /\ objects[i].pc > Position("wait.notify_all")
              /\ objects[i].exit => objects'[i].exit
              /\ \A t \in PoolIds :
                     (objects[i].exit /\ ThreadPc(i, t) = "woken") =>
                         threads'[i][t].pc \in {"woken", "done"}]_vars

\* C15 witness: drop has just notified, and the thread is back from the wait
\* without a timeout, the exit flag set, its join not yet begun.
C15_Witness ==
    \E i \in Instances :
        /\ Statement(objects[i]) = "handles.take"
        /\ objects[i].exit
        /\ \A t \in PoolIds : ThreadPc(i, t) = "woken" /\ ~threads[i][t].timed_out

\* drop of object i has set the exit flag and has issued its notification.
Notified(i) ==
    /\ objects[i].exit
    /\ \/ objects[i].state = "Joined"
       \/ objects[i].state = "ShuttingDown" /\ objects[i].pc > Position("wait.notify_all")

\* C16: once drop has set the exit flag and notified the condition variable,
\* no background thread has to wait for the timeout of a wait: none is
\* blocked in a wait that only its timeout (or a spurious wake-up) can end.
C16_NoTimeoutAfterNotify ==
    \A i \in Instances :
        Notified(i) => \A t \in PoolIds : ThreadPc(i, t) /= "waiting"

\* The holders that object i, its in-memory indices and its threads refer to.
Holders(i) ==
    {storage_accessor(objects[i])}
        \cup {objects[i].in_mem[b].storage : b \in DOMAIN objects[i].in_mem}
        \cup {threads[i][t].storage : t \in ThreadIds(i)}

\* C17: an object built by new(bins, config) has one bucket map holder, made
\* for bins bins, and bins in-memory indices; the index at place b is bound
\* to bin b (counted from 0) and to that holder; storage() returns that
\* holder and every background thread was handed it.
C17_OneHolderBinsIndices ==
    \A i \in Instances :
        objects[i].state /= "Uninitialized" =>
            LET holder == storage_accessor(objects[i])
            IN  /\ Holders(i) = {holder}
                /\ holder = BucketMapHolderNew(i, 0, Len(objects[i].in_mem))
                /\ \A b \in DOMAIN objects[i].in_mem :
                       objects[i].in_mem[b] = [storage |-> holder, bin |-> b - 1]
                /\ Len(threads[i]) = DEFAULT_THREADS
                /\ \A t \in ThreadIds(i) : threads[i][t].storage = holder

\* C17 witness: an object built with MaxBins bins is running, and its thread
\* is about to call the stats hook of the holder it was handed.
C17_Witness ==
    \E i \in Instances :
        /\ objects[i].state = "Running"
        /\ Len(objects[i].in_mem) = MaxBins
        /\ storage_accessor(objects[i]).bins = MaxBins
        /\ \A t \in PoolIds : ThreadPc(i, t) = "stats"

\* ------------------------------------------------------------ repeated shutdown

\* The statements of drop are run again on an object that drop has returned
\* for (Rust itself runs drop once).
DropEnterAgain(i) ==
    /\ objects[i].state = "Joined"
    /\ objects[i].shutdowns < MaxShutdowns
    /\ objects' = [objects EXCEPT ![i] = Enter(@)]
    /\ UNCHANGED <<threads, buckets>>

NextReshutdown ==
    \/ LifecycleSteps({1}, 0 .. MaxBins)
    \/ \E i \in {1} : DropEnterAgain(i)

SpecReshutdown == Init /\ [][NextReshutdown]_vars

\* C18: shutdown is idempotent-safe.  The first shutdown takes the handles
\* out, so no thread is ever joined twice and nothing panics; a later run of
\* the sequence finds None, changes no thread, returns from the take, and
\* leaves the object Joined with the exit flag set, as it was.
C18_ShutdownIdempotent ==
    /\ [](\A i \in Instances :
            /\ objects[i].state /= "Panicked"
            /\ \A t \in ThreadIds(i) : threads[i][t].joins <= 1
            /\ objects[i].state = "Joined" =>
                   /\ objects[i].exit
                   /\ objects[i].handles = None
                   /\ \A t \in ThreadIds(i) : threads[i][t].pc = "done")
    /\ [][\A i \in Instances :
              objects[i].shutdowns > 1 =>
                  /\ threads'[i] = threads[i]
                  /\ objects'[i].exit
                  /\ objects'[i].handles = None
                  /\ Does(i, "handles.take") =>
                         objects'[i] = [objects[i] EXCEPT !.state = "Joined", !.pc = 0]]_vars

\* C18 witness: the sequence has run a second time on an object and has
\* returned; its thread was joined once.
C18_Witness ==
    \E i \in Instances :
        /\ objects[i].state = "Joined"
        /\ objects[i].shutdowns = 2
        /\ \A t \in PoolIds : threads[i][t].joins = 1

\* C19: instances do not interfere.  A step of the drop of one object leaves
\* every other object and the threads of every other object as they were (it
\* neither sets their exit flag, nor wakes, ends or joins their threads); the
\* exit flag of an object is set only by its own drop, and its threads end
\* only with its own exit flag set.
C19_InstancesIndependent ==
    /\ [](\A j \in Instances :
            /\ objects[j].exit => objects[j].state \in {"ShuttingDown", "Joined"}
            /\ \A t \in ThreadIds(j) : threads[j][t].pc = "done" => objects[j].exit
            /\ \A t \in ThreadIds(j) : threads[j][t].joins > 0 => objects[j].handles = None)
    /\ [][\A i \in Instances : \A j \in Instances \ {i} :
              (objects[i].state \in {"Running", "ShuttingDown"} /\ objects'[i] /= objects[i]) =>
                  /\ objects'[j] = objects[j]
                  /\ threads'[j] = threads[j]]_vars

\* C19 witness: of two objects alive together one has been dropped and
\* joined, and the other is Running, its exit flag clear, its handles in
\* place, its thread blocked in the wait.
C19_Witness ==
    \E i \in Instances : \E j \in Instances \ {i} :
        /\ objects[i].state = "Joined"
        /\ objects[j].state = "Running"
        /\ ~objects[j].exit
        /\ objects[j].handles.some
        /\ \A t \in PoolIds : ThreadPc(j, t) = "waiting" /\ threads[j][t].joins = 0

\* ------------------------------------------------------------ panicking threads

NewWithPool(i, bins, pool) ==
    LET r == new_with_pool(i, bins, pool)
    IN  /\ objects[i].state = "Uninitialized"
        /\ objects' = [objects EXCEPT ![i] = r.object]
        /\ threads' = [threads EXCEPT ![i] = r.threads]
        /\ UNCHANGED buckets

PanicPoolIds == 1 .. MaxThreads

\* One object with a pool of 1 to MaxThreads threads, any of which may panic
\* in report_stats, dropped at any moment.
NextPanic ==
    \/ \E pool \in 1 .. MaxThreads : NewWithPool(1, 1, pool)
    \/ DropEnter(1)
    \/ DropExitStore(1)
    \/ DropNotifyAll(1)
    \/ DropHandlesTake(1)
    \/ DropJoin(1)
    \/ \E t \in PanicPoolIds : WaitTimeout(1, t)
    \/ \E t \in PanicPoolIds : TimeoutExpires(1, t)
    \/ \E t \in PanicPoolIds : SpuriousWake(1, t)
    \/ \E t \in PanicPoolIds : ExitLoad(1, t)
    \/ \E t \in PanicPoolIds : ReportStats(1, t)
    \/ \E t \in PanicPoolIds : ReportStatsPanics(1, t)

SpecPanic == Init /\ [][NextPanic]_vars

PanicJoinsPoolOfOne ==
    \A i \in Instances :
        (objects[i].state \in {"Joined", "Panicked"} /\ ThreadIds(i) = 1 .. DEFAULT_THREADS) =>
            \A t \in ThreadIds(i) : threads[i][t].joins = 1

\* ------------------------------------------------------------ maintenance loop

\* The places of background a thread goes to from the place from, with the
\* exit flag of its object as given: the wait, the return from the wait, the
\* load of the flag, the stats hook, and back to the wait.
LoopSuccessors(from, exit) ==
    CASE from = "loop"    -> {"waiting"}
      [] from = "waiting" -> {"woken"}
      [] from = "woken"   -> {IF exit THEN "done" ELSE "stats"}
      [] from = "stats"   -> {"loop"}
      [] OTHER            -> {}

\* C21: a step of the maintenance loop.  A spawned thread is at the top of the
\* loop and goes to the wait first; whatever ends the wait (the timeout, a
\* notification, a spurious wake-up), the thread then reads the exit flag; with
\* the flag set it ends, otherwise it calls the stats hook, once, and goes
\* back to the wait; so the hook is called neither before the first wait has
\* returned nor after a wake that saw the flag set.
C21_LoopStep ==
    [][\A i \in Instances :
          /\ \A t \in ThreadIds(i) :
                 threads'[i][t].pc /= threads[i][t].pc =>
                     threads'[i][t].pc \in LoopSuccessors(threads[i][t].pc, objects[i].exit)
          /\ ThreadIds(i) = {} =>
                 \A t \in DOMAIN threads'[i] : threads'[i][t].pc = "loop"]_vars

\* C21 witness: a thread is back from a wait, has read the
\* exit flag unset and is at the stats hook.
C21_Witness ==
    \E i \in Instances : \E t \in ThreadIds(i) :
        /\ threads[i][t].pc = "stats"
        /\ ~objects[i].exit
        /\ objects[i].state = "Running"

\* ------------------------------------------------------------ lifecycle order

\* The states of an object, in the order of its life.
LifecycleStates == <<"Uninitialized", "Running", "ShuttingDown", "Joined">>

Rank(state) == CHOOSE k \in DOMAIN LifecycleStates : LifecycleStates[k] = state

\* C22: an object is in one of Uninitialized, Running, ShuttingDown, Joined
\* and only moves to the next of them; its exit flag is unset until its drop
\* has begun, is set by a step of its drop only, and once set stays set; its
\* threads are those that new spawned; and a join returns for a thread only
\* with the exit flag set.
C22_LifecycleForward ==
    /\ [](\A i \in Instances :
            /\ \E k \in DOMAIN LifecycleStates : LifecycleStates[k] = objects[i].state
            /\ objects[i].state \in {"Uninitialized", "Running"} => ~objects[i].exit
            /\ objects[i].state = "Uninitialized" => threads[i] = <<>>
            /\ \A t \in ThreadIds(i) : threads[i][t].joins > 0 => objects[i].exit)
    /\ [][\A i \in Instances :
            /\ objects'[i].state /= objects[i].state =>
                   Rank(objects'[i].state) = Rank(objects[i].state) + 1
            /\ objects[i].exit => objects'[i].exit
            /\ (~objects[i].exit /\ objects'[i].exit) => Statement(objects[i]) = "exit.store"
            /\ objects[i].state /= "Uninitialized" => DOMAIN threads'[i] = DOMAIN threads[i]
            /\ \A t \in ThreadIds(i) :
                   threads'[i][t].joins /= threads[i][t].joins =>
                       /\ objects[i].exit
                       /\ Statement(objects[i]) = "join"]_vars

\* C22 witness: an object has gone through all four states: it is Joined,
\* its exit flag set, its thread joined.
C22_Witness ==
    \E i \in Instances :
        /\ objects[i].state = "Joined"
        /\ objects[i].exit
        /\ objects[i].shutdowns = 1
        /\ ThreadIds(i) = PoolIds
        /\ \A t \in ThreadIds(i) : threads[i][t].joins = 1

\* ------------------------------------------------------------ size class ranges

\* C23: the size class k of a list of n >= 1 slots has cells that hold the
\* list, 2^k >= n, and the class below has not, k = 0 or 2^(k-1) < n; a list
\* that is not longer has a size class that is not higher; and size class 0
\* is that of n = 0 and n = 1 only.
C23_SizeClassRange ==
    last.op = "data_bucket_ix" =>
        LET n == num_slots(index_bucket, last.ix)
            k == last.ret
        IN  /\ n /= U64Zero =>
                /\ LeqPow2(n, k)
                /\ k = 0 \/ ~LeqPow2(n, k - 1)
            /\ \A m \in SizeClassInputs :
                   ~U64Gt(m, n) => data_bucket_from_num_slots(m) <= k
            /\ k = 0 <=> n \in {U64Zero, U64(1)}

\* C23 witness: the size class of a list of 5 slots was computed: it is 3,
\* with cells of 8 elements, where class 2 has cells of 4.
C23_Witness ==
    /\ last.op = "data_bucket_ix"
    /\ num_slots(index_bucket, last.ix) = U64(5)
    /\ last.ret = 3

\* ------------------------------------------------------------ pool size

\* &Option<AccountsIndexConfig>: no configuration, or one that asks for a
\* pool of the given number of background threads.
NoConfig == [some |-> FALSE, index_threads |-> 0]

SomeConfig(index_threads) == [some |-> TRUE, index_threads |-> index_threads]

ConfigInputs == {NoConfig} \cup {SomeConfig(n) : n \in 1 .. MaxThreads}

\* The pool a configuration asks for: DEFAULT_THREADS when it is left out.
PoolAskedFor(config) == IF config.some THEN config.index_threads ELSE DEFAULT_THREADS

\* AccountsIndexStorage::new(bins, _config): _config is not read.
new_config(i, bins, _config) == new(i, bins)

NewConfig(i, bins, config) ==
    LET r == new_config(i, bins, config)
    IN  /\ objects[i].state = "Uninitialized"
        /\ objects' = [objects EXCEPT ![i] = r.object]
        /\ threads' = [threads EXCEPT ![i] = r.threads]
        /\ last' = Call("AccountsIndexStorage::new", i, [bins |-> bins, config |-> config],
                        TRUE, NoValue)
        /\ UNCHANGED <<index_bucket, data_buckets>>

\* One object, built with any number of bins and any configuration, and
\* dropped at any moment.
NextConfig ==
    \/ \E bins \in 0 .. MaxBins, config \in ConfigInputs : NewConfig(1, bins, config)
    \/ DropEnter(1)
    \/ DropExitStore(1)
    \/ DropNotifyAll(1)
    \/ DropHandlesTake(1)
    \/ DropJoin(1)
    \/ \E t \in PoolIds : WaitTimeout(1, t)
    \/ \E t \in PoolIds : TimeoutExpires(1, t)
    \/ \E t \in PoolIds : SpuriousWake(1, t)
    \/ \E t \in PoolIds : ExitLoad(1, t)
    \/ \E t \in PoolIds : ReportStats(1, t)

SpecConfig == Init /\ [][NextConfig]_vars

\* C24: the pool of background threads of an object has the size that the
\* configuration passed to new asks for, and DEFAULT_THREADS = 1 when the
\* configuration is left out, whatever the number of bins.
C24_PoolSizeConfigurable ==
    last.op = "AccountsIndexStorage::new" =>
        Len(threads[last.ix]) = PoolAskedFor(last.arg.config)

\* The pool has DEFAULT_THREADS threads whatever the configuration and the
\* number of bins.
PoolIsDefault ==
    last.op = "AccountsIndexStorage::new" =>
        /\ Len(threads[last.ix]) = DEFAULT_THREADS
        /\ Len(objects[last.ix].in_mem) = last.arg.bins

\* ------------------------------------------------------------ field specification

\* One entry handle, with init and the four setters called in any order.
FieldHandles == {1}

\* Offsets: one bit, all 56 bits, and the first that does not fit.
FieldOffsetInputs == {U64(1), OffsetMax, U64Pow2(OffsetBits)}

\* Counts for ref_count and num_slots: a small one and u64::MAX.
FieldCountInputs == {U64(7), U64LowOnes(U64Bits)}

NextFields ==
    \/ \E ix \in FieldHandles, k \in Keys : InitEntry(ix, k)
    \/ \E ix \in FieldHandles, v \in FieldOffsetInputs : SetStorageOffset(ix, v)
    \/ \E ix \in FieldHandles, p \in Pow2Inputs : SetStorageCapacity(ix, p)
    \/ \E ix \in FieldHandles, rc \in FieldCountInputs : SetRefCount(ix, rc)
    \/ \E ix \in FieldHandles, n \in FieldCountInputs : SetNumSlots(ix, n)

SpecFields == Init /\ [][NextFields]_vars

\* What the five getters return for the entry at ix.
Fields(bucket, ix) ==
    [key |-> key(bucket, ix),
     ref_count |-> ref_count(bucket, ix),
     num_slots |-> num_slots(bucket, ix),
     storage_offset |-> storage_offset(bucket, ix),
     storage_capacity_when_created_pow2 |-> storage_capacity_when_created_pow2(bucket, ix)]

\* The setters, each with the getter of the field it is for.
Setters ==
    [set_ref_count |-> "ref_count",
     set_num_slots |-> "num_slots",
     set_storage_offset |-> "storage_offset",
     set_storage_capacity_when_created_pow2 |-> "storage_capacity_when_created_pow2"]

\* C25: a setter that succeeds makes the getter of its field return the value
\* passed and leaves what the four other getters return (the key and the
\* three other fields) as it was.
C25_SettersWriteOneField ==
    [][\A op \in DOMAIN Setters :
          (last'.op = op /\ last'.ok) =>
              Fields(index_bucket', last'.ix)
                  = [Fields(index_bucket, last'.ix) EXCEPT ![Setters[op]] = last'.arg]]_vars

\* C25 witness: set_ref_count has run on an entry whose key and three other
\* fields were all set before: they are as they were set.
C25_Witness ==
    /\ last.op = "set_ref_count"
    /\ Fields(index_bucket, last.ix)
           = [key |-> "key2", ref_count |-> last.arg, num_slots |-> U64(7),
              storage_offset |-> OffsetMax, storage_capacity_when_created_pow2 |-> 255]

\* C29: set_storage_offset with an offset of 2^56 or more fails, and at the
\* point of the failure nothing is written: the recorded offset, the recorded
\* exponent, the key, ref_count and num_slots of the entry, and the whole
\* index bucket, are as they were before the call.
C29_RejectedOffsetWritesNothing ==
    [][(last'.op = "set_storage_offset" /\ ~FitsOffsetField(last'.arg)) =>
           /\ ~last'.ok
           /\ Fields(index_bucket', last'.ix) = Fields(index_bucket, last'.ix)
           /\ index_bucket' = index_bucket]_vars

\* C29 witness: set_storage_offset(2^56) has failed on an entry that records
\* the offset 2^56 - 1 and the exponent 255, with a key and counts set.
C29_Witness ==
    /\ last.op = "set_storage_offset"
    /\ ~last.ok
    /\ last.arg = U64Pow2(OffsetBits)
    /\ Fields(index_bucket, last.ix)
           = [key |-> "key1", ref_count |-> U64(7), num_slots |-> U64LowOnes(U64Bits),
              storage_offset |-> OffsetMax, storage_capacity_when_created_pow2 |-> 255]

\* ------------------------------------------------------------ occupancy state

\* C26: a tracker fresh from new(n) has every index below n free; a
\* successful occupy(ix) leaves ix occupied and a successful free(ix) leaves it
\* free, each changing the bit of ix only; no other call, is_free and the
\* writes of init to the element bytes included, changes a bit; and is_free
\* returns the negation of the bit, whatever the bytes of the element.  So
\* is_free(ix) is false exactly when the last successful occupy or free on ix
\* was an occupy.
C26_OccupancyState ==
    /\ [](/\ last.op = "new" =>
               /\ DOMAIN index_bucket.occupied = 0 .. (capacity(index_bucket) - 1)
               /\ \A ix \in Handles : is_free(index_bucket.occupied, ix)
          /\ last.op = "is_free" => last.ret = ~index_bucket.occupied[last.ix])
    /\ [][LET bits == index_bucket.occupied
              bits2 == index_bucket'.occupied
          IN  /\ (last'.op = "occupy" /\ last'.ok) =>
                     bits2 = [bits EXCEPT ![last'.ix] = TRUE] /\ ~is_free(bits2, last'.ix)
              /\ (last'.op = "free" /\ last'.ok) =>
                     bits2 = [bits EXCEPT ![last'.ix] = FALSE] /\ is_free(bits2, last'.ix)
              /\ ~(last'.op \in {"occupy", "free"} /\ last'.ok) => bits2 = bits
              /\ last'.op = "is_free" => index_bucket' = index_bucket]_vars

\* C26 witness: is_free has returned true for a cell that was occupied,
\* initialised with a key and freed, its bytes still in place, while the
\* other cell is occupied.
C26_Witness ==
    /\ last.op = "is_free"
    /\ last.ret
    /\ key(index_bucket, last.ix) \in Keys
    /\ \E ix \in Handles \ {last.ix} : ~is_free(index_bucket.occupied, ix)

\* ------------------------------------------------------------ remap specification

\* A data bucket of capacity exponent c1 with its cells left out: data_loc
\* reads capacity_pow2 of the bucket and nothing else.
BucketOfExponent(c1) == [capacity_pow2 |-> c1, occupied |-> <<>>, cells |-> <<>>]

\* data_loc of the entry at ix against a data bucket of exponent c1.
DataLocAt(ix, c1) ==
    \E overflow_checks \in BOOLEAN :
        LET r == data_loc(index_bucket, ix, BucketOfExponent(c1), overflow_checks)
        IN  /\ Running
            /\ last' = Call("data_loc_at", ix, c1, r.ok, r.loc)
            /\ UNCHANGED <<index_bucket, data_buckets, lifecycle>>

\* Offsets of 1, 2, 32 and 56 bits, and exponents from 1 to the largest a
\* shift of a u64 allows.
RemapOffsetInputs == {U64(1), U64(3), U32Max, OffsetMax}

RemapPow2Inputs == {1, 2, 32, 56, 63}

\* No key was created yet: the cells of the index bucket are written by hand.
ByHand == \A ix \in Handles : ~Occupied(ix)

\* First an entry is given offsets and exponents by hand and remapped against
\* buckets of any exponent; then the allocator creates the key in that cell
\* (init clears it), stores slot lists and doubles the data buckets, and the
\* entry is remapped against the bucket of its size class.
NextRemap ==
    \/ \E v \in RemapOffsetInputs : ByHand /\ SetStorageOffset(0, v)
    \/ \E p \in RemapPow2Inputs : ByHand /\ SetStorageCapacity(0, p)
    \/ \E c1 \in RemapPow2Inputs : ByHand /\ DataLocAt(0, c1)
    \/ \E k \in Keys : CreateKey(0, k)
    \/ \E n \in 1 .. MaxSlots : Allocates(0, n) /\ TryWrite(0, n)
    \/ \E b \in DataBucketIds :
           ~ByHand /\ Doublings < MaxCapacityPow2 /\ GrowData(b, MaxCapacityPow2)
    \/ num_slots(index_bucket, 0) /= U64Zero /\ DataLoc(0, data_bucket_ix(index_bucket, 0))

SpecRemap == Init /\ [][NextRemap]_vars

\* x < 2^k on the bits of x.
BelowPow2(x, k) == \A i \in k .. (U64Bits - 1) : Bit(x, i) = 0

\* r is o moved up by s bits, and none of the top s bits of o was set.
MovedUp(r, o, s) ==
    /\ \A i \in 0 .. (U64Bits - 1) : Bit(r, i) = (IF i >= s THEN Bit(o, i - s) ELSE 0)
    /\ \A i \in (U64Bits - s) .. (U64Bits - 1) : Bit(o, i) = 0

\* The exponent of the bucket the last data_loc call was taken against.
LocExponent == IF last.op = "data_loc" THEN data_buckets[last.arg].capacity_pow2 ELSE last.arg

\* C27: for an entry that records an offset o < 2^c0 and a data bucket of
\* exponent c1 with c0 <= c1 < 64, data_loc succeeds, is below 2^c1, and is o
\* moved up by c1 - c0 bits with no bit of o lost; and every entry the
\* allocator gave a slot list records an offset below 2^c0 and an exponent c0
\* that is not above the exponent of its data bucket, however often the
\* bucket has doubled.
C27_RemapInBounds ==
    /\ last.op \in {"data_loc", "data_loc_at"} =>
           LET o  == storage_offset(index_bucket, last.ix)
               c0 == storage_capacity_when_created_pow2(index_bucket, last.ix)
               c1 == LocExponent
           IN  (BelowPow2(o, c0) /\ c0 <= c1 /\ c1 < U64Bits) =>
                   /\ last.ok
                   /\ BelowPow2(last.ret, c1)
                   /\ MovedUp(last.ret, o, c1 - c0)
    /\ \A ix \in Handles :
           (Occupied(ix) /\ num_slots(index_bucket, ix) /= U64Zero) =>
               LET c0 == storage_capacity_when_created_pow2(index_bucket, ix)
               IN  /\ c0 <= data_buckets[data_bucket_ix(index_bucket, ix)].capacity_pow2
                   /\ BelowPow2(storage_offset(index_bucket, ix), c0)

\* C27 witness: an entry recording the offset 2^56 - 1 at exponent 56 was
\* remapped against a bucket of exponent 63.
C27_Witness ==
    /\ last.op = "data_loc_at"
    /\ last.ok
    /\ storage_offset(index_bucket, last.ix) = OffsetMax
    /\ storage_capacity_when_created_pow2(index_bucket, last.ix) = 56
    /\ last.arg = 63

\* ------------------------------------------------------------ reports after exit

\* C28: a thread calls the stats hook at most once with the exit flag set,
\* and that call is made by a thread that had read the flag unset: no thread
\* goes to the hook with the flag set; and a thread that has ended calls the
\* hook no more.
C28_OneLateReport ==
    /\ [](\A i \in Instances : \A t \in ThreadIds(i) :
            /\ threads[i][t].late_reports <= 1
            /\ threads[i][t].late_reports > 0 => objects[i].exit)
    /\ [][\A i \in Instances : \A t \in ThreadIds(i) :
            /\ (threads[i][t].pc /= "stats" /\ threads'[i][t].pc = "stats") => ~objects[i].exit
            /\ threads'[i][t].late_reports /= threads[i][t].late_reports =>
                   threads[i][t].pc = "stats"
            /\ threads[i][t].pc = "done" =>
                   /\ threads'[i][t].pc = "done"
                   /\ threads'[i][t].late_reports = threads[i][t].late_reports]_vars

\* C28 witness: a thread read the flag unset, drop set the flag, the thread
\* called the hook, waited again, read the flag set and ended, and was joined.
C28_Witness ==
    \E i \in Instances : \E t \in ThreadIds(i) :
        /\ objects[i].state = "Joined"
        /\ threads[i][t].pc = "done"
        /\ threads[i][t].late_reports = 1

\* ------------------------------------------------------------ handle specification

\* Two handles on the cells of one index bucket.  Every call is made through
\* the handle at 0; through the handle at 1 init and set_num_slots are, so
\* that each entry has something beside it to be kept.  The cells are marked
\* occupied by the tracker in any order, and the allocator gives the entry
\* at 0 a list of one slot, so that read_value has a cell to read.
HandleOffsetInputs == {U64(1), U64Pow2(OffsetBits)}

HandleCountInputs == {U64(1)}

NextHandle ==
    \/ \E ix \in Handles : OccupyIndex(ix)
    \/ \E ix \in Handles, k \in {"key1"} : InitEntry(ix, k)
    \/ \E ix \in Handles, n \in HandleCountInputs : SetNumSlots(ix, n)
    \/ \E v \in HandleOffsetInputs : SetStorageOffset(0, v)
    \/ \E p \in {1} : SetStorageCapacity(0, p)
    \/ \E rc \in HandleCountInputs : SetRefCount(0, rc)
    \/ Allocates(0, 1) /\ TryWrite(0, 1)
    \/ GetKey(0)
    \/ GetRefCount(0)
    \/ GetNumSlots(0)
    \/ GetStorageOffset(0)
    \/ GetStorageCapacity(0)
    \/ DataBucketIx(0)
    \/ \E b \in DataBucketIds : DataLoc(0, b)
    \/ \E len \in {0, NumDataBuckets} : ReadValue(0, len)

SpecHandle == Init /\ [][NextHandle]_vars

\* The calls of a handle that write, and those that only read.
WritingCalls == {"init"} \cup DOMAIN Setters

ReadingCalls ==
    {"key", "ref_count", "num_slots", "storage_offset", "storage_capacity_when_created_pow2",
     "data_bucket_ix", "data_loc", "read_value"}

\* C30: init and the setters of the handle at ix leave every other entry of
\* the index bucket, the occupancy bits and the capacity of the bucket and
\* the data buckets as they were; the getters, data_bucket_ix, data_loc and
\* read_value, also when they fail, leave both the index bucket and the data
\* buckets as they were.
C30_HandleTouchesOwnEntry ==
    [][/\ last'.op \in WritingCalls =>
            /\ \A j \in Handles \ {last'.ix} : get(index_bucket', j) = get(index_bucket, j)
            /\ DOMAIN index_bucket'.cells = DOMAIN index_bucket.cells
            /\ index_bucket'.occupied = index_bucket.occupied
            /\ index_bucket'.capacity_pow2 = index_bucket.capacity_pow2
            /\ data_buckets' = data_buckets
       /\ last'.op \in ReadingCalls =>
            /\ index_bucket' = index_bucket
            /\ data_buckets' = data_buckets]_vars

\* C30 witness: init has run through the handle at 0 while the entry at 1
\* holds a key and a slot count and its cell is the one marked occupied.
C30_Witness ==
    /\ last.op = "init"
    /\ last.ix = 0
    /\ key(index_bucket, 1) = "key1"
    /\ num_slots(index_bucket, 1) = U64(1)
    /\ ~is_free(index_bucket.occupied, 1)
    /\ is_free(index_bucket.occupied, 0)

====
